---- MODULE Spec2Model ----
(***************************************************************************)
(* OBD_BEND: the device protocol decoding engine of the GPS gateway.       *)
(*                                                                         *)
(* Three implementations of the binary (0x7E framed) decoder live in the   *)
(* repository: the ProtocolParser class of src/server.js (identical in     *)
(* src/protocol-parser.js), and the free functions of src/unnamed/part_000.*)
(* The class keeps the source's names; the free functions of part_000      *)
(* carry the prefix part_.  The acknowledgement encoder is                 *)
(* MessageHandler.sendResponse of src/message-handler.js.                  *)
(*                                                                         *)
(* Byte sequences are TLA+ sequences of 0..255.  Offsets are the source's  *)
(* (0-based); At converts.  A JavaScript string of decimal digits is a     *)
(* sequence of digit characters, each written as its value 0..9, and a     *)
(* string of hexadecimal characters is a sequence of values 0..15.         *)
(***************************************************************************)
EXTENDS Integers, Sequences, FiniteSets, TLC

\* ------------------------------------------------------------------ bounds
\* Longest byte sequence handed to the codec functions.
MaxLen == 4
\* Longest free-form message body of a device frame or an acknowledgement.
MaxBody == 2

\* The number of messages the message handler is given.
MaxMessages == 2

\* The number of decode calls of one run of the decoders.
MaxCalls == 3

\* The number of frontend clients that connect during a run.
MaxClients == 3

\* ------------------------------------------------------- program constants
FrameMarker == 126
EscapeByte == 125
EscapedEscape == 1
EscapedMarker == 2
MinPayloadLen == 13
BodyLengthMask == 1023
HeaderLen == 12
SimLen == 6
RegisterId == 256
AuthId == 258
HeartbeatId == 2
LocationReportId == 512
RegisterAckId == 33024
GeneralAckId == 32769

\* ------------------------------------------------ JavaScript value helpers
\* An absent optional value (null) and a present one.
Null == <<>>
Some(v) == <<v>>

\* data[offset] past the end of a typed array is undefined.
Undefined == 0 - 1

\* data[offset], offset counted from 0.
At(data, offset) == IF offset >= 0 /\ offset < Len(data) THEN data[offset + 1] ELSE Undefined

\* ToInt32 of an array element: undefined becomes 0 under <<, >>, & and |.
ToInt32(v) == IF v = Undefined THEN 0 ELSE v

\* a ^ b on non-negative integers.
RECURSIVE BitXor(_, _)
BitXor(a, b) == IF a = 0 THEN b ELSE IF b = 0 THEN a ELSE ((a + b) % 2) + 2 * BitXor(a \div 2, b \div 2)

\* data.subarray(begin, end) and Buffer.slice(begin, end), both clamped.
subarray(data, begin, end) == SubSeq(data, (IF begin > Len(data) THEN Len(data) ELSE begin) + 1, IF end > Len(data) THEN Len(data) ELSE end)

\* Every sequence over S of length at most n.
SeqsUpTo(S, n) == UNION {[1..k -> S] : k \in 0..n}

\* -------------------------------------------------------------- src/server.js
\* Data type readers.
readByte(data, offset) == At(data, offset)

readWord(data, offset) == ToInt32(At(data, offset)) * 256 + ToInt32(At(data, offset + 1))

readBytes(data, offset, length) == subarray(data, offset, offset + length)

\* `${nibble}`: the decimal text of a number 0..15.
nibbleText(n) == IF n < 10 THEN <<n>> ELSE <<n \div 10, n % 10>>

\* The loop of readBcd: the text of the two nibbles of each byte, in order.
RECURSIVE bcdString(_, _, _)
bcdString(data, offset, length) == IF length <= 0 THEN <<>> ELSE bcdString(data, offset, length - 1) \o nibbleText((ToInt32(At(data, offset + length - 1)) \div 16) % 16) \o nibbleText(ToInt32(At(data, offset + length - 1)) % 16)

trimOneZero(s) == IF Len(s) > 0 /\ s[1] = 0 /\ Len(s) > 1 THEN SubSeq(s, 2, Len(s)) ELSE s

readBcd(data, offset, length) == trimOneZero(bcdString(data, offset, length))

\* The iteration without the branch for 0x7D 0x01.
unescapeStep_NoSkip(e, i) == IF e[i + 1] = EscapeByte THEN (IF i + 1 < Len(e) /\ e[i + 2] = EscapedMarker THEN [out |-> <<FrameMarker>>, i |-> i + 2] ELSE [out |-> <<EscapeByte>>, i |-> i + 1]) ELSE [out |-> <<e[i + 1]>>, i |-> i + 1]

\* The iteration that reads 0x7D 0x02 as 0x7D.
unescapeStep_NoMarker(e, i) == IF e[i + 1] # EscapeByte THEN [out |-> <<e[i + 1]>>, i |-> i + 1] ELSE IF i + 1 < Len(e) /\ e[i + 2] \in {EscapedEscape, EscapedMarker} THEN [out |-> <<EscapeByte>>, i |-> i + 2] ELSE [out |-> <<EscapeByte>>, i |-> i + 1]

\* One iteration of the loop of unescape at index i: what it pushes and the
\* index the next iteration starts at.
unescapeStep(e, i) == IF e[i + 1] = EscapeByte THEN (IF i + 1 < Len(e) THEN (IF e[i + 2] = EscapedEscape THEN [out |-> <<EscapeByte>>, i |-> i + 2] ELSE IF e[i + 2] = EscapedMarker THEN [out |-> <<FrameMarker>>, i |-> i + 2] ELSE [out |-> <<EscapeByte>>, i |-> i + 1]) ELSE [out |-> <<EscapeByte>>, i |-> i + 1]) ELSE [out |-> <<e[i + 1]>>, i |-> i + 1]

\* At most n iterations of the loop from index i (it ends when i reaches the
\* length).  The iterations are run in two halves, one after the other, so that
\* the evaluation depth stays logarithmic in n.
RECURSIVE unescapeRun(_, _, _)
unescapeRun(e, i, n) == IF n = 0 \/ i >= Len(e) THEN [out |-> <<>>, i |-> i] ELSE IF n = 1 THEN unescapeStep(e, i) ELSE LET a == unescapeRun(e, i, n \div 2) b == unescapeRun(e, a.i, n - (n \div 2)) IN [out |-> a.out \o b.out, i |-> b.i]

unescape(escapedBytes) == unescapeRun(escapedBytes, 0, Len(escapedBytes)).out

\* for (const byte of data) { checksum ^= byte; } over the elements lo..hi-1: the
\* first half of the elements, then the second half from where the first ended.
RECURSIVE xorRun(_, _, _, _)
xorRun(data, lo, hi, checksum) == IF lo >= hi THEN checksum ELSE IF hi = lo + 1 THEN BitXor(checksum, data[lo + 1]) ELSE LET half == xorRun(data, lo, (lo + hi) \div 2, checksum) IN IF half >= 0 THEN xorRun(data, (lo + hi) \div 2, hi, half) ELSE half

calculateChecksum_SkipLast(data) == IF Len(data) = 0 THEN 0 ELSE xorRun(data, 0, Len(data) - 1, 0)

calculateChecksum(data) == IF Len(data) = 0 THEN 0 ELSE xorRun(data, 0, Len(data), 0)

\* new TextDecoder('utf-8').decode(bytes): a byte below 0x80 is its own code
\* point, and a byte that can start or continue no UTF-8 sequence (0xF8 to 0xFF)
\* is U+FFFD.  The bodies of this model hold no other byte.
readString(data, offset, length) == [k \in 1..Len(subarray(data, offset, offset + length)) |-> IF subarray(data, offset, offset + length)[k] < 128 THEN subarray(data, offset, offset + length)[k] ELSE 65533]

\* class MessageHeader and its getters.
MessageHeader(messageId, messageBodyProperties, terminalMobileNo, messageSerialNo, packetItems) == [messageId |-> messageId, messageBodyProperties |-> messageBodyProperties, terminalMobileNo |-> terminalMobileNo, messageSerialNo |-> messageSerialNo, packetItems |-> packetItems]

isSubpackaged(header) == ((header.messageBodyProperties \div 8192) % 2) = 1

messageBodyLength(header) == header.messageBodyProperties % (BodyLengthMask + 1)

dataEncryptionWay(header) == (header.messageBodyProperties \div 1024) % 8

MessagePacketPackageItems(totalPackets, packetSequenceNo) == [totalPackets |-> totalPackets, packetSequenceNo |-> packetSequenceNo]

TerminalRegisterMessage(header, provincialId, cityId, manufacturerId, terminalModels, terminalId, licensePlateColor, licensePlate) == [header |-> header, provincialId |-> provincialId, cityId |-> cityId, manufacturerId |-> manufacturerId, terminalModels |-> terminalModels, terminalId |-> terminalId, licensePlateColor |-> licensePlateColor, licensePlate |-> licensePlate]

\* The offset after the fixed fields and, when bit 13 is set, the packet items.
headerOffset(messageBodyProperties) == IF ((messageBodyProperties \div 8192) % 2) = 1 THEN HeaderLen + 4 ELSE HeaderLen

parseHeader_Bit12(payload) == [header |-> MessageHeader(readWord(payload, 0), readWord(payload, 2), readBcd(payload, 4, SimLen), readWord(payload, 10), IF ((readWord(payload, 2) \div 4096) % 2) = 1 THEN Some(MessagePacketPackageItems(readWord(payload, 12), readWord(payload, 14))) ELSE Null), messageBodyAndChecksum |-> subarray(payload, headerOffset(readWord(payload, 2)), Len(payload)), headerLength |-> headerOffset(readWord(payload, 2)), expectedBodyLength |-> readWord(payload, 2) % (BodyLengthMask + 1)]

parseHeader(payload) == [header |-> MessageHeader(readWord(payload, 0), readWord(payload, 2), readBcd(payload, 4, SimLen), readWord(payload, 10), IF ((readWord(payload, 2) \div 8192) % 2) = 1 THEN Some(MessagePacketPackageItems(readWord(payload, 12), readWord(payload, 14))) ELSE Null), messageBodyAndChecksum |-> subarray(payload, headerOffset(readWord(payload, 2)), Len(payload)), headerLength |-> headerOffset(readWord(payload, 2)), expectedBodyLength |-> readWord(payload, 2) % (BodyLengthMask + 1)]

\* switch (header.messageId): the registration body, or null.
parseMessageBody(header, messageBodyBytes) == IF header.messageId = RegisterId THEN Some(TerminalRegisterMessage(header, readWord(messageBodyBytes, 0), readWord(messageBodyBytes, 2), readBytes(messageBodyBytes, 4, 5), readBytes(messageBodyBytes, 9, 8), readBytes(messageBodyBytes, 17, 7), readByte(messageBodyBytes, 24), readString(messageBodyBytes, 25, Len(messageBodyBytes) - 25))) ELSE Null

\* What a call of parse leaves behind: the value returned (ret), which error it
\* logged (error), whether it logged the body length warning (warn), and the
\* header and body it decoded on the way (null when it returned before decoding).
ParseFailure(error) == [ret |-> Null, error |-> error, warn |-> FALSE, header |-> Null, body |-> Null]

parseChecked(dataForChecksum) == LET h == parseHeader(dataForChecksum) actualMessageBodyBytes == subarray(h.messageBodyAndChecksum, 0, Len(h.messageBodyAndChecksum) - 1) IN [ret |-> parseMessageBody(h.header, actualMessageBodyBytes), error |-> "none", warn |-> Len(actualMessageBodyBytes) # h.expectedBodyLength, header |-> Some(h.header), body |-> Some(actualMessageBodyBytes)]

parsePayload_NoChecksum(unescapedPayload) == IF Len(unescapedPayload) < MinPayloadLen THEN ParseFailure("short") ELSE parseChecked(subarray(unescapedPayload, 0, Len(unescapedPayload) - 1))

parsePayload(unescapedPayload) == IF Len(unescapedPayload) < MinPayloadLen THEN ParseFailure("short") ELSE IF unescapedPayload[Len(unescapedPayload)] # calculateChecksum(subarray(unescapedPayload, 0, Len(unescapedPayload) - 1)) THEN ParseFailure("checksum") ELSE parseChecked(subarray(unescapedPayload, 0, Len(unescapedPayload) - 1))

parse_NoEndMarker(rawMessage) == IF Len(rawMessage) < 2 \/ rawMessage[1] # FrameMarker THEN ParseFailure("framing") ELSE parsePayload(unescape(subarray(rawMessage, 1, Len(rawMessage) - 1)))

parse(rawMessage) == IF Len(rawMessage) < 2 \/ rawMessage[1] # FrameMarker \/ rawMessage[Len(rawMessage)] # FrameMarker THEN ParseFailure("framing") ELSE parsePayload(unescape(subarray(rawMessage, 1, Len(rawMessage) - 1)))

\* data.toString('hex'): two hexadecimal characters for each byte.
toStringHex(data) == [k \in 1..(2 * Len(data)) |-> IF k % 2 = 1 THEN data[(k + 1) \div 2] \div 16 ELSE data[k \div 2] % 16]

\* hexToBytes: bytes[i / 2] = parseInt(hex.substring(i, i + 2), 16); a string of
\* odd length throws.
hexToBytes(hex) == IF Len(hex) % 2 # 0 THEN Null ELSE Some([k \in 1..(Len(hex) \div 2) |-> hex[2 * k - 1] * 16 + hex[2 * k]])

\* The 'data' handler of the device server: what it ends with.  A throw inside
\* its try block is caught and logged.
dataHandler(data) == IF hexToBytes(toStringHex(data)) = Null THEN [ended |-> "caught", result |-> ParseFailure("none")] ELSE [ended |-> "returned", result |-> parse(hexToBytes(toStringHex(data))[1])]

\* ------------------------------------------------------ src/unnamed/part_000
\* hexToBytes: parseInt(cleaned.substr(i, 2), 16) for i = 0, 2, 4, ...; a last
\* single character is parsed alone.
part_hexToBytes(hex) == [k \in 1..((Len(hex) + 1) \div 2) |-> IF 2 * k <= Len(hex) THEN hex[2 * k - 1] * 16 + hex[2 * k] ELSE hex[2 * k - 1]]

part_readWord(bytes, offset) == ToInt32(At(bytes, offset)) * 256 + ToInt32(At(bytes, offset + 1))

part_readBytes(bytes, offset, length) == subarray(bytes, offset, offset + length)

\* result.replace(/^0+(?!$)/, ''): every leading 0 that is not the last character.
RECURSIVE stripLeadingZeros(_)
stripLeadingZeros(s) == IF Len(s) > 1 /\ s[1] = 0 THEN stripLeadingZeros(Tail(s)) ELSE s

part_readBcd(bytes, offset, length) == stripLeadingZeros(bcdString(bytes, offset, length))

part_readString(bytes, offset, length) == readString(bytes, offset, length)

\* bytes.reduce((checksum, b) => checksum ^ b, 0)
part_calculateChecksum(bytes) == xorRun(bytes, 0, Len(bytes), 0)

\* One iteration of the loop of unescape: an escape byte that is the last byte
\* pushes nothing.
part_unescapeStep(bytes, i) == IF bytes[i + 1] = EscapeByte THEN (IF i + 1 < Len(bytes) THEN (IF bytes[i + 2] = EscapedEscape THEN [out |-> <<EscapeByte>>, i |-> i + 2] ELSE IF bytes[i + 2] = EscapedMarker THEN [out |-> <<FrameMarker>>, i |-> i + 2] ELSE [out |-> <<EscapeByte>>, i |-> i + 1]) ELSE [out |-> <<>>, i |-> i + 1]) ELSE [out |-> <<bytes[i + 1]>>, i |-> i + 1]

RECURSIVE part_unescapeRun(_, _, _)
part_unescapeRun(bytes, i, n) == IF n = 0 \/ i >= Len(bytes) THEN [out |-> <<>>, i |-> i] ELSE IF n = 1 THEN part_unescapeStep(bytes, i) ELSE LET a == part_unescapeRun(bytes, i, n \div 2) b == part_unescapeRun(bytes, a.i, n - (n \div 2)) IN [out |-> a.out \o b.out, i |-> b.i]

part_unescape(bytes) == part_unescapeRun(bytes, 0, Len(bytes)).out

part_parseHeader(bytes) == [header |-> [messageId |-> part_readWord(bytes, 0), messageBodyProperties |-> part_readWord(bytes, 2), terminalMobileNo |-> part_readBcd(bytes, 4, SimLen), messageSerialNo |-> part_readWord(bytes, 10), packetItems |-> IF ((part_readWord(bytes, 2) \div 8192) % 2) # 0 THEN Some([totalPackets |-> part_readWord(bytes, 12), sequenceNo |-> part_readWord(bytes, 14)]) ELSE Null], offset |-> headerOffset(part_readWord(bytes, 2))]

\* The registration object (its hexadecimal texts as sequences of 0..15), or null.
part_parseMessageBody(header, bytes) == IF header.messageId = RegisterId THEN Some([type |-> "TerminalRegisterMessage", messageId |-> toStringHex(<<header.messageId \div 256, header.messageId % 256>>), serialNo |-> header.messageSerialNo, terminalMobileNo |-> header.terminalMobileNo, provincialId |-> part_readWord(bytes, 0), cityId |-> part_readWord(bytes, 2), manufacturerId |-> toStringHex(part_readBytes(bytes, 4, 5)), terminalModels |-> toStringHex(part_readBytes(bytes, 9, 8)), terminalId |-> toStringHex(part_readBytes(bytes, 17, 7)), licensePlateColor |-> At(bytes, 24), licensePlate |-> part_readString(bytes, 25, Len(bytes) - 25)]) ELSE Null

\* How a call ends: it returns a value, or throws an Error with a message.
Returned(value) == [ended |-> "returned", error |-> "none", ret |-> value]

Threw(error) == [ended |-> "threw", error |-> error, ret |-> Null]

part_parseData(data) == LET h == part_parseHeader(data) IN Returned(part_parseMessageBody(h.header, subarray(data, h.offset, Len(data))))

part_parseMessage(message) == IF At(message, 0) # FrameMarker \/ At(message, Len(message) - 1) # FrameMarker THEN Threw("Invalid message framing.") ELSE LET unescaped == part_unescape(subarray(message, 1, Len(message) - 1)) IN IF Len(unescaped) < MinPayloadLen THEN Threw("Unescaped message too short.") ELSE IF unescaped[Len(unescaped)] # part_calculateChecksum(subarray(unescaped, 0, Len(unescaped) - 1)) THEN Threw("Checksum mismatch.") ELSE part_parseData(subarray(unescaped, 0, Len(unescaped) - 1))

part_parse(hexString) == part_parseMessage(part_hexToBytes(hexString))

\* The names the module binds at its top level.  The 'data' handler of its
\* device server calls parse(example).
part_moduleScope == {"net", "dotenv", "CLIENT_PORT", "frontendSocket", "DEVICE_PORT", "NODE_ENV", "SEND_TEST_DATA", "deviceServer", "frontendServer", "hexToBytes", "readWord", "readDWord", "readBytes", "readBcd", "readString", "calculateChecksum", "unescape", "parseHeader", "parseMessageBody", "parse"}

\* The 'data' handler of the device server, which has no try block: reading
\* a name that is not bound throws a ReferenceError, and whatever parse throws
\* leaves the handler.
part_dataHandler(data) == IF "example" \notin part_moduleScope THEN [ended |-> "uncaught", error |-> "ReferenceError: example is not defined", ret |-> Null] ELSE LET r == part_parse(toStringHex(data)) IN IF r.ended = "threw" THEN [ended |-> "uncaught", error |-> r.error, ret |-> Null] ELSE r

\* ------------------------------------------------------ src/message-handler.js
\* escapeBuffer and START_END_BYTE are used by sendResponse and defined in no
\* file of src/: they follow section 4.1 of the specification (0x7E becomes
\* 0x7D 0x02, 0x7D becomes 0x7D 0x01, every other byte is kept).
START_END_BYTE == FrameMarker

RECURSIVE escapeRun(_, _, _)
escapeRun(bytes, lo, hi) == IF lo >= hi THEN <<>> ELSE IF hi = lo + 1 THEN (IF bytes[lo + 1] = FrameMarker THEN <<EscapeByte, EscapedMarker>> ELSE IF bytes[lo + 1] = EscapeByte THEN <<EscapeByte, EscapedEscape>> ELSE <<bytes[lo + 1]>>) ELSE escapeRun(bytes, lo, (lo + hi) \div 2) \o escapeRun(bytes, (lo + hi) \div 2, hi)

escapeBuffer(bytes) == escapeRun(bytes, 0, Len(bytes))

\* Buffer.alloc(size), buf.writeUInt16BE(value, offset), source.copy(target, targetStart).
alloc(size) == [k \in 1..size |-> 0]

writeUInt16BE(buf, value, offset) == [buf EXCEPT ![offset + 1] = value \div 256, ![offset + 2] = value % 256]

copy(source, target, targetStart) == [k \in 1..Len(target) |-> IF k - 1 >= targetStart /\ k - 1 - targetStart < Len(source) THEN source[k - targetStart] ELSE target[k]]

\* The header sendResponse builds: id, body length, SIM, serial number.
responseHeader_SerialAt8(messageId, simBuffer, serialNo, bodyBuffer) == writeUInt16BE(copy(simBuffer, writeUInt16BE(writeUInt16BE(alloc(HeaderLen), messageId, 0), Len(bodyBuffer), 2), 4), serialNo, 8)

responseHeader(messageId, simBuffer, serialNo, bodyBuffer) == writeUInt16BE(copy(simBuffer, writeUInt16BE(writeUInt16BE(alloc(HeaderLen), messageId, 0), Len(bodyBuffer), 2), 4), serialNo, 10)

\* The packet sendResponse writes to the socket.  Its calculateChecksum is the
\* free function of that name (part_000).
sendResponse(messageId, simBuffer, serialNo, bodyBuffer) == LET fullMessage == responseHeader(messageId, simBuffer, serialNo, bodyBuffer) \o bodyBuffer IN <<START_END_BYTE>> \o escapeBuffer(fullMessage \o <<part_calculateChecksum(fullMessage)>>) \o <<START_END_BYTE>>

\* Buffer.slice(start, end) with an end counted from the end of the buffer.
slice(buffer, start, end) == subarray(buffer, start, IF end < 0 THEN (IF Len(buffer) + end < 0 THEN 0 ELSE Len(buffer) + end) ELSE end)

\* buffer.readUInt16BE(offset) throws a RangeError unless offset + 2 bytes are
\* there.
readUInt16BE(buffer, offset) == IF offset + 2 > Len(buffer) THEN Threw("RangeError") ELSE Returned(buffer[offset + 1] * 256 + buffer[offset + 2])

writeUInt8(buf, value, offset) == [buf EXCEPT ![offset + 1] = value]

\* buffer.toString('hex') of the SIM bytes.
simNumberHex(buffer) == toStringHex(slice(buffer, 4, 10))

\* MessageHandler.parseMessage.
parseMessage(buffer) == IF readUInt16BE(buffer, 0).ended = "threw" THEN Threw("RangeError") ELSE IF readUInt16BE(buffer, 10).ended = "threw" THEN Threw("RangeError") ELSE Returned([messageId |-> readUInt16BE(buffer, 0).ret, simNumber |-> simNumberHex(buffer), serialNo |-> readUInt16BE(buffer, 10).ret, body |-> slice(buffer, 12, 0 - 1)])

\* The unescapeBuffer that the caller of handleDeviceMessage passes in: the
\* unescape of section 4.1, as ProtocolParser has it.
unescapeBuffer(bytes) == unescape(bytes)

\* Buffer.from("123456", "ascii").
authCode == <<49, 50, 51, 52, 53, 54>>

\* The bodies the handlers build.
registerBody(serialNo) == copy(authCode, writeUInt8(writeUInt16BE(alloc(3 + Len(authCode)), serialNo, 0), 0, 2), 3)

ackBody_NoId(serialNo, ackedId) == writeUInt8(writeUInt16BE(alloc(5), serialNo, 0), 0, 4)

ackBody(serialNo, ackedId) == writeUInt8(writeUInt16BE(writeUInt16BE(alloc(5), serialNo, 0), ackedId, 2), 0, 4)

locationBody == <<0, 2, 0>>

\* The handlers: the packets each writes to the socket.
handleRegister(simBuffer, serialNo) == <<sendResponse(RegisterAckId, simBuffer, serialNo, registerBody(serialNo))>>

handleAuth(simBuffer, serialNo) == <<sendResponse(GeneralAckId, simBuffer, serialNo, ackBody(serialNo, AuthId))>>

handleHeartbeat(simBuffer, serialNo) == <<sendResponse(GeneralAckId, simBuffer, serialNo, ackBody(serialNo, HeartbeatId))>>

handleLocationReport(simBuffer, serialNo) == <<sendResponse(GeneralAckId, simBuffer, serialNo, locationBody)>>

\* switch (messageId) of handleDeviceMessage.
dispatch(messageId, simBuffer, serialNo) == IF messageId = RegisterId THEN handleRegister(simBuffer, serialNo) ELSE IF messageId = AuthId THEN handleAuth(simBuffer, serialNo) ELSE IF messageId = HeartbeatId THEN handleHeartbeat(simBuffer, serialNo) ELSE IF messageId = LocationReportId THEN handleLocationReport(simBuffer, serialNo) ELSE <<>>

\* MessageHandler.handleDeviceMessage: how it ends and what it writes to the
\* socket.  parseMessage and sendResponse are the static methods of the class.
handleDeviceMessage(data) == IF At(data, 0) # FrameMarker \/ At(data, Len(data) - 1) # FrameMarker THEN [ended |-> "returned", error |-> "none", wrote |-> <<>>] ELSE LET unescaped == unescapeBuffer(slice(data, 1, 0 - 1)) IN IF parseMessage(unescaped).ended = "threw" THEN [ended |-> "threw", error |-> parseMessage(unescaped).error, wrote |-> <<>>] ELSE [ended |-> "returned", error |-> "none", wrote |-> dispatch(parseMessage(unescaped).ret.messageId, slice(unescaped, 4, 10), parseMessage(unescaped).ret.serialNo)]

\* ------------------------------------------------------------- src/parser.js
\* JavaScript values: a string is the sequence of its characters, a number that
\* parseInt gives is an integer, and a number that parseFloat gives is kept as
\* the decimal text it was read from.
JsNull == <<"null">>

JsUndefined == <<"undefined">>

JsNaN == <<"NaN">>

JsString(chars) == <<"string", chars>>

JsNumber(n) == <<"number", n>>

JsFloat(text) == <<"float", text>>

JsBuffer(chars) == <<"buffer", chars>>

JsDate(year, month, date, hours, minutes, seconds) == <<"date", year, month, date, hours, minutes, seconds>>

JsObject(fields) == <<"object", fields>>

isString(value) == value[1] = "string"

\* !value.
falsy(value) == value \in {JsNull, JsUndefined, JsNaN, JsString(<<>>), JsNumber(0)}

\* The characters String.prototype.trim removes, as far as messages hold them.
WhiteSpace == {" ", "\t", "\r", "\n"}

DecimalDigits == {"0", "1", "2", "3", "4", "5", "6", "7", "8", "9"}

HexDigits == DecimalDigits \cup {"A", "B", "C", "D", "E", "F", "a", "b", "c", "d", "e", "f"}

UpperAlnum == DecimalDigits \cup {"A", "B", "C", "D", "E", "F", "G", "H", "I", "J", "K", "L", "M", "N", "O", "P", "Q", "R", "S", "T", "U", "V", "W", "X", "Y", "Z"}

\* The value of a digit in radix 10 or 16.
digitValue(c) == CASE c = "0" -> 0 [] c = "1" -> 1 [] c = "2" -> 2 [] c = "3" -> 3 [] c = "4" -> 4 [] c = "5" -> 5 [] c = "6" -> 6 [] c = "7" -> 7 [] c = "8" -> 8 [] c = "9" -> 9 [] c \in {"A", "a"} -> 10 [] c \in {"B", "b"} -> 11 [] c \in {"C", "c"} -> 12 [] c \in {"D", "d"} -> 13 [] c \in {"E", "e"} -> 14 [] c \in {"F", "f"} -> 15 [] OTHER -> 99

\* The length of the longest prefix of s whose characters are all in S.
prefixIn(s, S) == IF \A i \in 1..Len(s) : s[i] \in S THEN Len(s) ELSE (CHOOSE i \in 1..Len(s) : s[i] \notin S /\ \A j \in 1..(i - 1) : s[j] \in S) - 1

\* s.trim().
trimFrom(s, first) == IF first > Len(s) THEN <<>> ELSE SubSeq(s, first, CHOOSE last \in first..Len(s) : s[last] \notin WhiteSpace /\ \A i \in (last + 1)..Len(s) : s[i] \in WhiteSpace)

trim(s) == trimFrom(s, prefixIn(s, WhiteSpace) + 1)

startsWith(s, prefix) == Len(s) >= Len(prefix) /\ SubSeq(s, 1, Len(prefix)) = prefix

endsWith(s, suffix) == Len(s) >= Len(suffix) /\ SubSeq(s, Len(s) - Len(suffix) + 1, Len(s)) = suffix

\* s.substring(start, end) for 0 <= start <= end.
substring(s, start, end) == SubSeq(s, (IF start > Len(s) THEN Len(s) ELSE start) + 1, IF end > Len(s) THEN Len(s) ELSE end)

\* s.indexOf(c): the index from 0 of the first c, or -1.
indexOf(s, c) == IF \A i \in 1..Len(s) : s[i] # c THEN 0 - 1 ELSE (CHOOSE i \in 1..Len(s) : s[i] = c /\ \A j \in 1..(i - 1) : s[j] # c) - 1

\* s.split(','): the fields between the commas; the recursion is one level for
\* each field.
RECURSIVE split(_)
split(s) == LET comma == indexOf(s, ",") IN IF comma < 0 THEN <<s>> ELSE <<SubSeq(s, 1, comma)>> \o split(SubSeq(s, comma + 2, Len(s)))

\* parts.join(',').
RECURSIVE join(_)
join(parts) == IF parts = <<>> THEN <<>> ELSE IF Len(parts) = 1 THEN parts[1] ELSE parts[1] \o <<",">> \o join(Tail(parts))

\* The number that the digits of s spell in the radix.
RECURSIVE digitsValue(_, _)
digitsValue(s, radix) == IF s = <<>> THEN 0 ELSE digitsValue(SubSeq(s, 1, Len(s) - 1), radix) * radix + digitValue(s[Len(s)])

\* parseInt(text, radix) for radix 10 and 16: white space is skipped, a sign is
\* read, for radix 16 a 0x is skipped, and the digits up to the first character
\* that is none are the number; NaN when there is none.
\* A number past the range of the integers here, kept as its sign, its radix
\* and its digits without leading zeros: 9 decimal digits and 7 hexadecimal
\* ones always fit.
JsLarge(negative, radix, digits) == <<"large", negative, radix, digits>>

significant(digits) == SubSeq(digits, prefixIn(digits, {"0"}) + 1, Len(digits))

digitsNumber(body, radix, n) == IF n = 0 THEN JsNaN ELSE IF Len(significant(SubSeq(body, 1, n))) > (IF radix = 16 THEN 7 ELSE 9) THEN JsLarge(FALSE, radix, significant(SubSeq(body, 1, n))) ELSE JsNumber(digitsValue(SubSeq(body, 1, n), radix))

parseIntDigits(body, radix) == digitsNumber(body, radix, prefixIn(body, IF radix = 16 THEN HexDigits ELSE DecimalDigits))

parseIntUnsigned(s, radix) == parseIntDigits(IF radix = 16 /\ Len(s) >= 2 /\ s[1] = "0" /\ s[2] \in {"x", "X"} THEN SubSeq(s, 3, Len(s)) ELSE s, radix)

negated(number, negative) == IF number = JsNaN \/ ~negative THEN number ELSE IF number[1] = "large" THEN JsLarge(TRUE, number[3], number[4]) ELSE JsNumber(0 - number[2])

parseIntSigned(t, radix) == negated(parseIntUnsigned(IF t # <<>> /\ t[1] \in {"-", "+"} THEN Tail(t) ELSE t, radix), t # <<>> /\ t[1] = "-")

parseIntText(s, radix) == parseIntSigned(SubSeq(s, prefixIn(s, WhiteSpace) + 1, Len(s)), radix)

\* parseInt(value, radix): undefined and null are read as the texts "undefined"
\* and "null", which hold no digit in radix 10 (in radix 16 the text of a value
\* is never read here: _toNumber returns before).
parseInt(value, radix) == IF isString(value) THEN parseIntText(value[2], radix) ELSE JsNaN

\* parseFloat(text): white space is skipped and the longest prefix sign, digits,
\* point, digits with at least one digit is the number (the messages here hold
\* no exponent and no Infinity); NaN when there is none.
floatText(u, negative, whole, afterPoint) == IF whole = 0 /\ afterPoint < 1 THEN JsNaN ELSE JsFloat((IF negative THEN <<"-">> ELSE <<>>) \o SubSeq(u, 1, whole + (IF afterPoint < 1 THEN 0 ELSE afterPoint + 1)))

floatFraction(u, negative, whole) == floatText(u, negative, whole, IF Len(u) > whole /\ u[whole + 1] = "." THEN prefixIn(SubSeq(u, whole + 2, Len(u)), DecimalDigits) ELSE 0 - 1)

parseFloatUnsigned(u, negative) == floatFraction(u, negative, prefixIn(u, DecimalDigits))

parseFloatSigned(t) == parseFloatUnsigned(IF t # <<>> /\ t[1] \in {"-", "+"} THEN Tail(t) ELSE t, t # <<>> /\ t[1] = "-")

parseFloatText(s) == parseFloatSigned(SubSeq(s, prefixIn(s, WhiteSpace) + 1, Len(s)))

parseFloat(value) == IF isString(value) THEN parseFloatText(value[2]) ELSE JsNaN

\* _toNumber(value, radix, isFloat).
\* isNaN(parsed) ? null : parsed.
nullIfNaN(parsed) == IF parsed = JsNaN THEN JsNull ELSE parsed

_toNumber(value, radix, isFloat) == IF value \in {JsString(<<>>), JsUndefined, JsNull} THEN JsNull ELSE nullIfNaN(IF isFloat THEN parseFloat(value) ELSE parseInt(value, radix))

\* _toNumberFromHex(value): isNaN(null) is false.
_toNumberFromHex(value) == IF value \in {JsString(<<>>), JsUndefined, JsNull} THEN JsNull ELSE _toNumber(value, 16, FALSE)

\* _toString(value).
_toString(value) == IF value \in {JsString(<<>>), JsUndefined, JsNull} THEN JsNull ELSE value

\* a || b.
orElse(a, b) == IF falsy(a) THEN b ELSE a

\* The day number of a date of the proleptic Gregorian calendar, counted from
\* 1970-01-01, month 1..12: the MakeDay of new Date.
dayOfYear(month, date) == (153 * (IF month > 2 THEN month - 3 ELSE month + 9) + 2) \div 5 + date - 1

dayOfEra(yoe, doy) == yoe * 365 + yoe \div 4 - yoe \div 100 + doy

daysFromEra(y, month, date) == (y \div 400) * 146097 + dayOfEra(y - (y \div 400) * 400, dayOfYear(month, date)) - 719468

daysFromCivil(year, month, date) == daysFromEra(IF month <= 2 THEN year - 1 ELSE year, month, date)

\* The date of a day number, as <<year, month 1..12, date>>: what getFullYear,
\* getMonth and getDate read back.
civilDate(y, month, date) == <<y + (IF month <= 2 THEN 1 ELSE 0), month, date>>

civilFromMonth(y, doy, mp) == civilDate(y, IF mp < 10 THEN mp + 3 ELSE mp - 9, doy - (153 * mp + 2) \div 5 + 1)

civilFromDayOfYear(y, doy) == civilFromMonth(y, doy, (5 * doy + 2) \div 153)

civilFromYear(era, doe, yoe) == civilFromDayOfYear(yoe + era * 400, doe - (365 * yoe + yoe \div 4 - yoe \div 100))

civilFromEra(era, doe) == civilFromYear(era, doe, (doe - doe \div 1460 + doe \div 36524 - doe \div 146096) \div 365)

civilFromDays(days) == civilFromEra((days + 719468) \div 146097, (days + 719468) % 146097)

InvalidDate == <<"Invalid Date">>

\* new Date(year, monthIndex, day, hours, minutes, seconds) in local time, away
\* from a daylight-saving change: a NaN component gives an Invalid Date, a year
\* 0..99 is 1900 + year, and components out of range carry into the next ones.
dateOf(civil, inDay) == JsDate(civil[1], civil[2] - 1, civil[3], inDay \div 3600, (inDay % 3600) \div 60, inDay % 60)

makeDate(fullYear, monthIndex, day, time) == dateOf(civilFromDays(daysFromCivil(fullYear + monthIndex \div 12, (monthIndex % 12) + 1, 1) + day - 1 + time \div 86400), time % 86400)

newDate(year, monthIndex, day, hours, minutes, seconds) == IF JsNaN \in {year, monthIndex, day, hours, minutes, seconds} THEN InvalidDate ELSE makeDate(IF year[2] >= 0 /\ year[2] <= 99 THEN 1900 + year[2] ELSE year[2], monthIndex[2], day[2], hours[2] * 3600 + minutes[2] * 60 + seconds[2])

\* NaN - 1 is NaN.
minusOne(number) == IF number = JsNaN THEN JsNaN ELSE JsNumber(number[2] - 1)

\* date.getFullYear() === year && date.getMonth() === month && date.getDate()
\* === day: the getters of an Invalid Date are NaN, equal to nothing.
sameDay(date, year, month, day) == date # InvalidDate /\ JsNumber(date[2]) = year /\ JsNumber(date[3]) = month /\ JsNumber(date[4]) = day

\* The check of _parseDateTime on the date made.
validDate(date, year, month, day) == IF sameDay(date, year, month, day) THEN date ELSE JsNull

dateTimeOf(year, month, day, hour, minute, second) == validDate(newDate(year, month, day, hour, minute, second), year, month, day)

\* _parseDateTime(dtString).
_parseDateTime(dtString) == IF ~falsy(dtString) /\ Len(dtString[2]) = 14 THEN dateTimeOf(parseIntText(substring(dtString[2], 0, 4), 10), minusOne(parseIntText(substring(dtString[2], 4, 6), 10)), parseIntText(substring(dtString[2], 6, 8), 10), parseIntText(substring(dtString[2], 8, 10), 10), parseIntText(substring(dtString[2], 10, 12), 10), parseIntText(substring(dtString[2], 12, 14), 10)) ELSE JsNull

RESP == <<"R", "E", "S", "P">>

ACK == <<"A", "C", "K">>

BUFF == <<"B", "U", "F", "F">>

HEX == <<"H", "E", "X">>

\* A method of the parser, as the registries hold it.
JsFunction(name) == <<"function", name>>

\* this.asciiParsers: the mnemonic of each registered layout and its method.
asciiParsers == {<<<<"G", "T", "T", "O", "W">>, JsFunction("parsePositionRelatedReport")>>, <<<<"G", "T", "G", "E", "O">>, JsFunction("parsePositionRelatedReport")>>, <<<<"G", "T", "S", "P", "D">>, JsFunction("parsePositionRelatedReport")>>, <<<<"G", "T", "R", "T", "L">>, JsFunction("parsePositionRelatedReport")>>, <<<<"G", "T", "D", "O", "G">>, JsFunction("parsePositionRelatedReport")>>, <<<<"G", "T", "I", "G", "L">>, JsFunction("parsePositionRelatedReport")>>, <<<<"G", "T", "V", "G", "L">>, JsFunction("parsePositionRelatedReport")>>, <<<<"G", "T", "E", "P", "S">>, JsFunction("parseGTEPS")>>, <<<<"G", "T", "F", "R", "I">>, JsFunction("parseGTFRI")>>, <<<<"G", "T", "A", "L", "S">>, JsFunction("parseGTALS")>>, <<<<"G", "T", "H", "B", "M">>, JsFunction("parsePositionRelatedReport")>>, <<<<"G", "T", "G", "E", "S">>, JsFunction("parseGTGES")>>, <<<<"G", "T", "I", "N", "F">>, JsFunction("parseGTINF")>>, <<<<"G", "T", "G", "P", "S">>, JsFunction("parseGTGPS")>>, <<<<"G", "T", "A", "L", "M">>, JsFunction("parseGTALM")>>, <<<<"G", "T", "C", "I", "D">>, JsFunction("parseGTCID")>>, <<<<"G", "T", "C", "S", "Q">>, JsFunction("parseGTCSQ")>>, <<<<"G", "T", "V", "E", "R">>, JsFunction("parseGTVER")>>, <<<<"G", "T", "B", "A", "T">>, JsFunction("parseGTBAT")>>, <<<<"G", "T", "T", "M", "Z">>, JsFunction("parseGTTMZ")>>, <<<<"G", "T", "G", "S", "V">>, JsFunction("parseGTGSV")>>, <<<<"G", "T", "A", "T", "I">>, JsFunction("parseGTATI")>>, <<<<"G", "T", "A", "I", "F">>, JsFunction("parseGTAIF")>>, <<<<"G", "T", "B", "T", "I">>, JsFunction("parseGTBTI")>>, <<<<"G", "T", "P", "N", "A">>, JsFunction("parseSimpleEventReport")>>, <<<<"G", "T", "P", "F", "A">>, JsFunction("parseSimpleEventReport")>>, <<<<"G", "T", "P", "D", "P">>, JsFunction("parseSimpleEventReport")>>, <<<<"G", "T", "M", "P", "N">>, JsFunction("parseCommonEventReport")>>, <<<<"G", "T", "M", "P", "F">>, JsFunction("parseCommonEventReport")>>, <<<<"G", "T", "B", "T", "C">>, JsFunction("parseCommonEventReport")>>, <<<<"G", "T", "S", "T", "C">>, JsFunction("parseCommonEventReport")>>, <<<<"G", "T", "B", "P", "L">>, JsFunction("parseGTBPL")>>, <<<<"G", "T", "S", "T", "T">>, JsFunction("parseGTSTT")>>, <<<<"G", "T", "I", "G", "N">>, JsFunction("parseGTIGN")>>, <<<<"G", "T", "I", "G", "F">>, JsFunction("parseGTIGF")>>, <<<<"G", "T", "I", "D", "N">>, JsFunction("parseGTIDN_GTSTR_GTSTP_GTLSP")>>, <<<<"G", "T", "S", "T", "R">>, JsFunction("parseGTIDN_GTSTR_GTSTP_GTLSP")>>, <<<<"G", "T", "S", "T", "P">>, JsFunction("parseGTIDN_GTSTR_GTSTP_GTLSP")>>, <<<<"G", "T", "L", "S", "P">>, JsFunction("parseGTIDN_GTSTR_GTSTP_GTLSP")>>, <<<<"G", "T", "I", "D", "F">>, JsFunction("parseGTIDF")>>, <<<<"G", "T", "G", "S", "M">>, JsFunction("parseGTGSM")>>, <<<<"G", "T", "G", "S", "S">>, JsFunction("parseGTGSS")>>, <<<<"G", "T", "C", "R", "A">>, JsFunction("parseGTCRA")>>, <<<<"G", "T", "A", "S", "C">>, JsFunction("parseGTASC")>>, <<<<"G", "T", "R", "M", "D">>, JsFunction("parseGTRMD")>>, <<<<"G", "T", "U", "P", "C">>, JsFunction("parseGTUPC")>>, <<<<"G", "T", "E", "U", "C">>, JsFunction("parseGTEUC")>>, <<<<"G", "T", "B", "S", "F">>, JsFunction("parseGTBSF")>>, <<<<"G", "T", "S", "V", "R">>, JsFunction("parseGTSVR")>>, <<<<"G", "T", "O", "B", "D">>, JsFunction("parseGTOBD")>>, <<<<"G", "T", "O", "P", "N">>, JsFunction("parseGTOPN")>>, <<<<"G", "T", "O", "P", "F">>, JsFunction("parseGTOPF")>>, <<<<"G", "T", "J", "E", "S">>, JsFunction("parseGTJES")>>, <<<<"G", "T", "O", "E", "R">>, JsFunction("parseGTOER")>>, <<<<"G", "T", "O", "S", "M">>, JsFunction("parseGTOSM")>>, <<<<"G", "T", "V", "G", "N">>, JsFunction("parseGTVGN_GTVGF")>>, <<<<"G", "T", "V", "G", "F">>, JsFunction("parseGTVGN_GTVGF")>>, <<<<"G", "T", "B", "A", "A">>, JsFunction("parseGTBAA")>>, <<<<"B", "U", "F", "F">>, JsFunction("parseBufferReport")>>}

\* this.hexParsers: the first four bytes of each hex family and its method.
hexParsers == {<<<<"2", "B", "4", "1", "4", "3", "4", "B">>, JsFunction("parseHEXACK")>>, <<<<"2", "B", "5", "2", "5", "3", "5", "0">>, JsFunction("parseHEXRSP")>>, <<<<"2", "B", "4", "5", "5", "6", "5", "4">>, JsFunction("parseHEXEVT")>>, <<<<"2", "B", "4", "9", "4", "E", "4", "6">>, JsFunction("parseHEXINF")>>, <<<<"2", "B", "4", "8", "4", "2", "4", "4">>, JsFunction("parseHEXHBD")>>, <<<<"2", "B", "4", "3", "5", "2", "4", "4">>, JsFunction("parseHEXCRD")>>, <<<<"2", "B", "4", "F", "4", "2", "4", "4">>, JsFunction("parseHEXOBD")>>, <<<<"2", "B", "4", "1", "5", "4", "4", "9">>, JsFunction("parseHEXATI")>>}

\* registry[key]: the method, or undefined.
lookup(registry, key) == IF \E entry \in registry : entry[1] = key THEN (CHOOSE entry \in registry : entry[1] = key)[2] ELSE JsUndefined

\* params[index], undefined past the end; index from 0.
param(params, index) == IF index >= 0 /\ index < Len(params) THEN JsString(params[index + 1]) ELSE JsUndefined

\* params.slice(1).
sliceFrom1(params) == IF params = <<>> THEN <<>> ELSE Tail(params)

DigitChars == <<"0", "1", "2", "3", "4", "5", "6", "7", "8", "9">>

\* The decimal text of a number that is not negative, and NaN for NaN: what a
\* template string makes of it.
RECURSIVE decimalText(_)
decimalText(n) == IF n < 10 THEN <<DigitChars[n + 1]>> ELSE decimalText(n \div 10) \o <<DigitChars[(n % 10) + 1]>>

numberText(number) == IF number = JsNaN THEN <<"N", "a", "N">> ELSE decimalText(number[2])

\* _parseProtocolVersion(protocolVersion).
protocolVersionOf(protocolVersion, deviceTypeHex, deviceType, majorVersion, minorVersion) == JsObject([raw |-> protocolVersion, deviceType |-> deviceType, deviceTypeName |-> JsString(IF deviceType = JsNumber(94) THEN <<"G", "V", "5", "0", "0", "M", "A", "P">> ELSE <<"U", "n", "k", "n", "o", "w", "n", " ", "(", "0", "x">> \o deviceTypeHex \o <<")">>), majorVersion |-> majorVersion, minorVersion |-> minorVersion, formattedVersion |-> JsString(numberText(majorVersion) \o <<".">> \o numberText(minorVersion))])

_parseProtocolVersion(protocolVersion) == IF falsy(protocolVersion) \/ Len(protocolVersion[2]) # 6 THEN JsObject([raw |-> protocolVersion, deviceType |-> JsNull, deviceTypeName |-> JsString(<<"U", "n", "k", "n", "o", "w", "n">>), majorVersion |-> JsNull, minorVersion |-> JsNull, formattedVersion |-> JsNull]) ELSE protocolVersionOf(protocolVersion, substring(protocolVersion[2], 0, 2), parseIntText(substring(protocolVersion[2], 0, 2), 16), parseIntText(substring(protocolVersion[2], 2, 4), 16), parseIntText(substring(protocolVersion[2], 4, 6), 16))

\* The table of _parseObdProtocol.
protocols == {<<<<"0", "0">>, JsObject([code |-> JsString(<<"0", "0">>), protocol |-> JsString(<<"U", "n", "k", "n", "o", "w", "n">>), description |-> JsString(<<"S", "e", "a", "r", "c", "h", "i", "n", "g">>)])>>, <<<<"3", "3">>, JsObject([code |-> JsString(<<"3", "3">>), protocol |-> JsString(<<"I", "S", "O", " ", "1", "5", "7", "6", "5">>), description |-> JsString(<<"I", "D", " ", "1", "1", "b", "i", "t", "s", " ", "5", "0", "0", "k", "b">>)])>>, <<<<"3", "4">>, JsObject([code |-> JsString(<<"3", "4">>), protocol |-> JsString(<<"I", "S", "O", " ", "1", "5", "7", "6", "5">>), description |-> JsString(<<"I", "D", " ", "2", "9", "b", "i", "t", "s", " ", "5", "0", "0", "k", "b">>)])>>, <<<<"3", "5">>, JsObject([code |-> JsString(<<"3", "5">>), protocol |-> JsString(<<"I", "S", "O", " ", "1", "5", "7", "6", "5">>), description |-> JsString(<<"I", "D", " ", "1", "1", "b", "i", "t", "s", " ", "2", "5", "0", "k", "b">>)])>>, <<<<"3", "6">>, JsObject([code |-> JsString(<<"3", "6">>), protocol |-> JsString(<<"I", "S", "O", " ", "1", "5", "7", "6", "5">>), description |-> JsString(<<"I", "D", " ", "2", "9", "b", "i", "t", "s", " ", "2", "5", "0", "k", "b">>)])>>, <<<<"5", "3">>, JsObject([code |-> JsString(<<"5", "3">>), protocol |-> JsString(<<"I", "S", "O", " ", "1", "5", "7", "6", "5">>), description |-> JsString(<<"I", "D", " ", "1", "1", "b", "i", "t", "s", " ", "1", "2", "5", "k", "b", "p", "s">>)])>>, <<<<"5", "4">>, JsObject([code |-> JsString(<<"5", "4">>), protocol |-> JsString(<<"I", "S", "O", " ", "1", "5", "7", "6", "5">>), description |-> JsString(<<"I", "D", " ", "2", "9", "b", "i", "t", "s", " ", "2", "5", "k", "b", "p", "s">>)])>>, <<<<"6", "3">>, JsObject([code |-> JsString(<<"6", "3">>), protocol |-> JsString(<<"I", "S", "O", " ", "1", "5", "7", "6", "5">>), description |-> JsString(<<"I", "D", " ", "1", "1", "b", "i", "t", "s", " ", "3", "3", ".", "3", "k", "b", "p", "s">>)])>>, <<<<"6", "4">>, JsObject([code |-> JsString(<<"6", "4">>), protocol |-> JsString(<<"I", "S", "O", " ", "1", "5", "7", "6", "5">>), description |-> JsString(<<"I", "D", " ", "2", "9", "b", "i", "t", "s", " ", "3", "3", ".", "3", "k", "b", "p", "s">>)])>>}

\* protocolCode.padStart(2, '0').
padStart2(s) == IF Len(s) = 0 THEN <<"0", "0">> ELSE IF Len(s) = 1 THEN <<"0">> \o s ELSE s

\* _parseObdProtocol(protocolCode): padStart of undefined is a TypeError.
protocolOf(normalizedCode, known) == IF known # JsUndefined THEN Returned(known) ELSE Returned(JsObject([code |-> JsString(normalizedCode), protocol |-> JsString(<<"U", "n", "k", "n", "o", "w", "n">>), description |-> JsString(<<"U", "n", "k", "n", "o", "w", "n", " ", "p", "r", "o", "t", "o", "c", "o", "l", " ", "c", "o", "d", "e", ":", " ">> \o normalizedCode)]))

_parseObdProtocol(protocolCode) == IF ~isString(protocolCode) THEN Threw("TypeError") ELSE protocolOf(padStart2(protocolCode[2]), lookup(protocols, padStart2(protocolCode[2])))

\* _parseFloatOrSpecial(value).
_parseFloatOrSpecial(value) == IF value \in {JsString(<<"i", "n", "f">>), JsString(<<"n", "a", "n">>)} THEN value ELSE _toNumber(value, 10, TRUE)

\* parseGTOPN(params).
parseGTOPN(params) == Returned(JsObject([protocolVersion |-> _parseProtocolVersion(param(params, 0)), uniqueId |-> _toString(param(params, 1)), vin |-> _toString(param(params, 2)), deviceName |-> _toString(param(params, 3)), gnssAccuracy |-> _toNumber(param(params, 4), 10, FALSE), speed |-> _toNumber(param(params, 5), 10, TRUE), azimuth |-> _toNumber(param(params, 6), 10, FALSE), altitude |-> _toNumber(param(params, 7), 10, TRUE), longitude |-> _toNumber(param(params, 8), 10, TRUE), latitude |-> _toNumber(param(params, 9), 10, TRUE), gnssUtcTime |-> _parseDateTime(param(params, 10)), mcc |-> _toString(param(params, 11)), mnc |-> _toString(param(params, 12)), lac |-> _toNumber(param(params, 13), 16, FALSE), cellId |-> _toNumber(param(params, 14), 16, FALSE), reserved |-> orElse(_toString(param(params, 15)), JsString(<<"0", "0">>)), sendTime |-> _parseDateTime(param(params, 16)), countNumber |-> _toNumberFromHex(param(params, 17))]))

\* parseGTOPF(params).
parseGTOPF(params) == parseGTOPN(params)

\* parseGTOER(params): a layout returns its report or ends in the exception of
\* a reader.
parseGTOERWith(params, obdProtocol) == IF obdProtocol.ended = "threw" THEN obdProtocol ELSE Returned(JsObject([protocolVersion |-> _parseProtocolVersion(param(params, 0)), uniqueId |-> _toString(param(params, 1)), vin |-> _toString(param(params, 2)), deviceName |-> _toString(param(params, 3)), code |-> _toString(param(params, 4)), obdProtocol |-> obdProtocol.ret, reserved1 |-> _toString(param(params, 6)), gnssAccuracy |-> _toNumber(param(params, 7), 10, FALSE), speed |-> _toNumber(param(params, 8), 10, TRUE), azimuth |-> _toNumber(param(params, 9), 10, FALSE), altitude |-> _toNumber(param(params, 10), 10, TRUE), longitude |-> _toNumber(param(params, 11), 10, TRUE), latitude |-> _toNumber(param(params, 12), 10, TRUE), gnssUtcTime |-> _parseDateTime(param(params, 13)), mcc |-> _toString(param(params, 14)), mnc |-> _toString(param(params, 15)), lac |-> _toNumber(param(params, 16), 16, FALSE), cellId |-> _toNumber(param(params, 17), 16, FALSE), reserved2 |-> orElse(_toString(param(params, 18)), JsString(<<"0", "0">>)), sendTime |-> _parseDateTime(param(params, 19)), countNumber |-> _toNumberFromHex(param(params, 20))]))

parseGTOER(params) == parseGTOERWith(params, _parseObdProtocol(param(params, 5)))

\* parseGTOBD(params), without reportMask, supportedPidsParsed and
\* diagnosticTroubleCodes: the three are computed from params[5], params[9] and
\* params[17..18] by readers that throw for no input and touch no other field.
parseGTOBDWith(params, obdProtocol) == IF obdProtocol.ended = "threw" THEN obdProtocol ELSE Returned(JsObject([messageType |-> JsString(<<"G", "T", "O", "B", "D">>), protocolVersion |-> _parseProtocolVersion(param(params, 0)), uniqueId |-> _toString(param(params, 1)), vin |-> _toString(param(params, 2)), deviceName |-> _toString(param(params, 3)), reportType |-> _toNumber(param(params, 4), 10, FALSE), obdVin |-> _toString(param(params, 6)), obdConnection |-> _toNumber(param(params, 7), 10, FALSE), obdPowerVoltage |-> _toNumber(param(params, 8), 10, FALSE), supportedPids |-> _toString(param(params, 9)), engineRpm |-> _toNumber(param(params, 10), 10, FALSE), vehicleSpeed |-> _toNumber(param(params, 11), 10, FALSE), engineCoolantTemperature |-> _toNumber(param(params, 12), 10, FALSE), fuelConsumption |-> _parseFloatOrSpecial(param(params, 13)), dtcsClearedDistance |-> _toNumber(param(params, 14), 10, FALSE), milActivatedDistance |-> _toNumber(param(params, 15), 10, FALSE), milStatus |-> _toNumber(param(params, 16), 10, FALSE), numberOfDtcs |-> _toNumber(param(params, 17), 10, FALSE), throttlePosition |-> _toNumber(param(params, 19), 10, FALSE), engineLoad |-> _toNumber(param(params, 20), 10, FALSE), fuelLevelInput |-> _toNumber(param(params, 21), 10, FALSE), obdProtocol |-> obdProtocol.ret, obdMileage |-> _toNumber(param(params, 23), 10, TRUE), gnssAccuracy |-> _toNumber(param(params, 24), 10, FALSE), speed |-> _toNumber(param(params, 25), 10, TRUE), azimuth |-> _toNumber(param(params, 26), 10, FALSE), altitude |-> _toNumber(param(params, 27), 10, TRUE), longitude |-> _toNumber(param(params, 28), 10, TRUE), latitude |-> _toNumber(param(params, 29), 10, TRUE), gnssUtcTime |-> _parseDateTime(param(params, 30)), mcc |-> _toString(param(params, 31)), mnc |-> _toString(param(params, 32)), lac |-> _toNumber(param(params, 33), 16, FALSE), cellId |-> _toNumber(param(params, 34), 16, FALSE), reserved |-> orElse(_toString(param(params, 35)), JsString(<<"0", "0">>)), mileage |-> _toNumber(param(params, 36), 10, TRUE), sendTime |-> _parseDateTime(param(params, 37)), countNumber |-> _toNumber(param(params, 38), 16, FALSE)]))

parseGTOBD(params) == IF Len(params) < 32 THEN Threw("Error") ELSE parseGTOBDWith(params, _parseObdProtocol(param(params, 22)))

\* parseGTOSM(params), without reportMask and supportedPidsParsed, computed from
\* params[6] and params[10] in the same way.
parseGTOSMWith(params, obdProtocol) == IF obdProtocol.ended = "threw" THEN obdProtocol ELSE Returned(JsObject([messageType |-> JsString(<<"G", "T", "O", "S", "M">>), protocolVersion |-> _parseProtocolVersion(param(params, 0)), uniqueId |-> _toString(param(params, 1)), vin |-> _toString(param(params, 2)), deviceName |-> _toString(param(params, 3)), recordId |-> _toNumber(param(params, 4), 10, FALSE), reportType |-> _toNumber(param(params, 5), 10, FALSE), obdVin |-> _toString(param(params, 7)), obdConnection |-> _toNumber(param(params, 8), 10, FALSE), obdPowerVoltage |-> _toNumber(param(params, 9), 10, FALSE), supportedPids |-> _toString(param(params, 10)), engineRpm |-> _toNumber(param(params, 11), 10, FALSE), vehicleSpeed |-> _toNumber(param(params, 12), 10, FALSE), engineCoolantTemperature |-> _toNumber(param(params, 13), 10, FALSE), fuelConsumption |-> _parseFloatOrSpecial(param(params, 14)), dtcsClearedDistance |-> _toNumber(param(params, 15), 10, FALSE), milActivatedDistance |-> _toNumber(param(params, 16), 10, FALSE), milStatus |-> _toNumber(param(params, 17), 10, FALSE), numberOfDtcs |-> _toNumber(param(params, 18), 10, FALSE), diagnosticTroubleCodes |-> _toString(param(params, 19)), throttlePosition |-> _toNumber(param(params, 20), 10, FALSE), engineLoad |-> _toNumber(param(params, 21), 10, FALSE), fuelLevelInput |-> _toNumber(param(params, 22), 10, FALSE), obdProtocol |-> obdProtocol.ret, gnssAccuracy |-> _toNumber(param(params, 24), 10, FALSE), speed |-> _toNumber(param(params, 25), 10, TRUE), azimuth |-> _toNumber(param(params, 26), 10, FALSE), altitude |-> _toNumber(param(params, 27), 10, TRUE), longitude |-> _toNumber(param(params, 28), 10, TRUE), latitude |-> _toNumber(param(params, 29), 10, TRUE), gnssUtcTime |-> _parseDateTime(param(params, 30)), mcc |-> _toString(param(params, 31)), mnc |-> _toString(param(params, 32)), lac |-> _toNumber(param(params, 33), 16, FALSE), cellId |-> _toNumber(param(params, 34), 16, FALSE), reserved |-> orElse(_toString(param(params, 35)), JsString(<<"0", "0">>)), mileage |-> _toNumber(param(params, 36), 10, TRUE), sendTime |-> _parseDateTime(param(params, 37)), countNumber |-> _toNumberFromHex(param(params, 38))]))

parseGTOSM(params) == IF Len(params) < 32 THEN Threw("Error") ELSE parseGTOSMWith(params, _parseObdProtocol(param(params, 23)))

\* ---- src/parser.js, the signal quality mappers
\* What >= and <= make of their operand: null counts as 0; a number past the
\* range counts as 10^9, which orders it rightly against the small numbers it
\* is compared with and, as an index, is past the end of every array.
toNumeric(value) == IF value = JsNull THEN 0 ELSE IF value[1] = "large" THEN (IF value[2] THEN 0 - 1000000000 ELSE 1000000000) ELSE value[2]

\* A whole number as a template string writes it.
signedText(n) == IF n < 0 THEN <<"-">> \o decimalText(0 - n) ELSE decimalText(n)

templateText(value) == IF value = JsNull THEN <<"n", "u", "l", "l">> ELSE signedText(value[2])

\* A mapper whose bands are 3 dBm apart.
_mapCsqRssiToDbm_Step3(rssi) == IF rssi = JsNumber(0) THEN JsString(<<"<", "-", "1", "1", "3", " ", "d", "B", "m">>) ELSE IF rssi = JsNumber(1) THEN JsString(<<"-", "1", "1", "1", " ", "d", "B", "m">>) ELSE IF toNumeric(rssi) >= 2 /\ toNumeric(rssi) <= 30 THEN JsString(signedText((0 - 109) + (toNumeric(rssi) - 2) * 3) \o <<" ", "d", "B", "m">>) ELSE IF rssi = JsNumber(31) THEN JsString(<<">", "-", "5", "1", " ", "d", "B", "m">>) ELSE IF rssi = JsNumber(99) THEN JsString(<<"U", "n", "k", "n", "o", "w", "n">>) ELSE JsString(<<"I", "n", "v", "a", "l", "i", "d", " ", "R", "S", "S", "I">>)

\* _mapCsqRssiToDbm: 56 / 28 is 2 and Math.round leaves a whole number as it is.
_mapCsqRssiToDbm(rssi) == IF rssi = JsNumber(0) THEN JsString(<<"<", "-", "1", "1", "3", " ", "d", "B", "m">>) ELSE IF rssi = JsNumber(1) THEN JsString(<<"-", "1", "1", "1", " ", "d", "B", "m">>) ELSE IF toNumeric(rssi) >= 2 /\ toNumeric(rssi) <= 30 THEN JsString(signedText((0 - 109) + (toNumeric(rssi) - 2) * 2) \o <<" ", "d", "B", "m">>) ELSE IF rssi = JsNumber(31) THEN JsString(<<">", "-", "5", "1", " ", "d", "B", "m">>) ELSE IF rssi = JsNumber(99) THEN JsString(<<"U", "n", "k", "n", "o", "w", "n">>) ELSE JsString(<<"I", "n", "v", "a", "l", "i", "d", " ", "R", "S", "S", "I">>)

_mapCsqBer(ber) == IF toNumeric(ber) >= 0 /\ toNumeric(ber) <= 7 THEN JsString(<<"B", "E", "R", " ">> \o templateText(ber) \o <<"/", "7">>) ELSE IF ber = JsNumber(99) THEN JsString(<<"U", "n", "k", "n", "o", "w", "n", " ", "s", "i", "g", "n", "a", "l", " ", "s", "t", "r", "e", "n", "g", "t", "h">>) ELSE JsString(<<"I", "n", "v", "a", "l", "i", "d", " ", "B", "E", "R">>)

\* parseGTCSQ after its two constants are read.
parseGTCSQWith(params, csqRssi, csqBer) == Returned(JsObject([protocolVersion |-> _parseProtocolVersion(param(params, 0)), uniqueId |-> _toString(param(params, 1)), vin |-> _toString(param(params, 2)), deviceName |-> _toString(param(params, 3)), csqRssi |-> csqRssi, csqRssiDbm |-> _mapCsqRssiToDbm(csqRssi), csqBer |-> csqBer, csqBerDescription |-> _mapCsqBer(csqBer), sendTime |-> _parseDateTime(param(params, 6)), countNumber |-> _toNumberFromHex(param(params, 7))]))

parseGTCSQ(params) == parseGTCSQWith(params, _toNumber(param(params, 4), 10, FALSE), _toNumber(param(params, 5), 10, FALSE))


\* ---- src/parser.js, further layouts
JsBoolean(b) == <<"boolean", b>>

JsArray(elements) == <<"array", elements>>

\* A GTCID layout that reads the count number in radix 10.
parseGTCID_DecimalCount(params) == Returned(JsObject([protocolVersion |-> _parseProtocolVersion(param(params, 0)), uniqueId |-> _toString(param(params, 1)), vin |-> _toString(param(params, 2)), deviceName |-> _toString(param(params, 3)), iccId |-> _toString(param(params, 4)), sendTime |-> _parseDateTime(param(params, 5)), countNumber |-> _toNumber(param(params, 6), 10, FALSE)]))

parseGTCID(params) == Returned(JsObject([protocolVersion |-> _parseProtocolVersion(param(params, 0)), uniqueId |-> _toString(param(params, 1)), vin |-> _toString(param(params, 2)), deviceName |-> _toString(param(params, 3)), iccId |-> _toString(param(params, 4)), sendTime |-> _parseDateTime(param(params, 5)), countNumber |-> _toNumberFromHex(param(params, 6))]))

\* One entry of the satellite list of parseGTGSV.
satellite(svId, svPower) == JsObject([svId |-> svId, svPower |-> svPower, hasSignal |-> JsBoolean(toNumeric(svPower) > 0)])

\* The loop of parseGTGSV from its i-th round on: it stops at the count, and
\* before it when a field of the pair is past the end.
RECURSIVE satellitesFrom(_, _, _)
satellitesFrom(params, svCount, i) == IF ~(i < toNumeric(svCount)) \/ param(params, 5 + i * 2) = JsUndefined \/ param(params, 5 + i * 2 + 1) = JsUndefined THEN <<>> ELSE <<satellite(_toNumber(param(params, 5 + i * 2), 10, FALSE), _toNumber(param(params, 5 + i * 2 + 1), 10, FALSE))>> \o satellitesFrom(params, svCount, i + 1)

\* satellites.filter(sat => sat.svPower > 0).length.
activeCount(satellites) == JsNumber(Cardinality({i \in 1..Len(satellites) : toNumeric(satellites[i][2].svPower) > 0}))

parseGTGSVWith(params, svCount, satellites, sendTimeIndex) == Returned(JsObject([protocolVersion |-> _parseProtocolVersion(param(params, 0)), uniqueId |-> _toString(param(params, 1)), vin |-> _toString(param(params, 2)), deviceName |-> _toString(param(params, 3)), svCount |-> svCount, satellites |-> JsArray(satellites), activeSatellites |-> activeCount(satellites), sendTime |-> _parseDateTime(param(params, sendTimeIndex)), countNumber |-> _toNumberFromHex(param(params, sendTimeIndex + 1))]))

parseGTGSVCount(params, svCount) == parseGTGSVWith(params, svCount, satellitesFrom(params, svCount, 0), 5 + toNumeric(svCount) * 2)

parseGTGSV(params) == parseGTGSVCount(params, _toNumber(param(params, 4), 10, FALSE))

\* parseGTALM begins with params.split(','); params is the array of fields,
\* which has no split, so the call is a TypeError whatever the fields are.
parseGTALM(params) == Threw("TypeError")

\* parseCommonEventReport: the GTSTC positions when there are 18 fields or more
\* and the fifth is empty, the standard positions otherwise.
parseCommonEventReport(params) == IF Len(params) >= 18 /\ param(params, 4) = JsString(<<>>) THEN Returned(JsObject([protocolVersion |-> _parseProtocolVersion(param(params, 0)), uniqueId |-> _toString(param(params, 1)), vin |-> _toString(param(params, 2)), deviceName |-> _toString(param(params, 3)), gnssAccuracy |-> _toNumber(param(params, 5), 10, FALSE), speed |-> _toNumber(param(params, 6), 10, TRUE), azimuth |-> _toNumber(param(params, 7), 10, FALSE), altitude |-> _toNumber(param(params, 8), 10, TRUE), longitude |-> _toNumber(param(params, 9), 10, TRUE), latitude |-> _toNumber(param(params, 10), 10, TRUE), gnssUtcTime |-> _parseDateTime(param(params, 11)), mcc |-> _toString(param(params, 12)), mnc |-> _toString(param(params, 13)), lac |-> _toString(param(params, 14)), cellId |-> _toString(param(params, 15)), sendTime |-> _parseDateTime(param(params, 17)), countNumber |-> _toNumberFromHex(param(params, 18))])) ELSE Returned(JsObject([protocolVersion |-> _parseProtocolVersion(param(params, 0)), uniqueId |-> _toString(param(params, 1)), vin |-> _toString(param(params, 2)), deviceName |-> _toString(param(params, 3)), gnssAccuracy |-> _toNumber(param(params, 4), 10, FALSE), speed |-> _toNumber(param(params, 5), 10, TRUE), azimuth |-> _toNumber(param(params, 6), 10, FALSE), altitude |-> _toNumber(param(params, 7), 10, TRUE), longitude |-> _toNumber(param(params, 8), 10, TRUE), latitude |-> _toNumber(param(params, 9), 10, TRUE), gnssUtcTime |-> _parseDateTime(param(params, 10)), mcc |-> _toString(param(params, 11)), mnc |-> _toString(param(params, 12)), lac |-> _toString(param(params, 13)), cellId |-> _toString(param(params, 14)), sendTime |-> _parseDateTime(param(params, 16)), countNumber |-> _toNumberFromHex(param(params, 17))]))

\* parserFn.call(this, params, messagePrefix, commandType) for a layout method.
\* The layouts unfolded here are those of the OBD reports; the result of another
\* layout is written as the call itself.
callLayout(parserFn, params) == CASE parserFn = JsFunction("parseGTOER") -> parseGTOER(params) [] parserFn = JsFunction("parseGTOPN") -> parseGTOPN(params) [] parserFn = JsFunction("parseGTOPF") -> parseGTOPF(params) [] parserFn = JsFunction("parseGTOBD") -> parseGTOBD(params) [] parserFn = JsFunction("parseGTOSM") -> parseGTOSM(params) [] parserFn = JsFunction("parseGTALM") -> parseGTALM(params) [] parserFn = JsFunction("parseGTCSQ") -> parseGTCSQ(params) [] parserFn = JsFunction("parseGTCID") -> parseGTCID(params) [] parserFn = JsFunction("parseGTGSV") -> parseGTGSV(params) [] parserFn = JsFunction("parseCommonEventReport") -> parseCommonEventReport(params) [] OTHER -> Returned(<<"call", parserFn, params>>)

\* The report of a buffered message whose mnemonic has no layout.
rawDataReport(originalCommandType, remainingParams) == JsObject([originalCommand |-> originalCommandType, rawData |-> JsString(join(remainingParams))])

\* { originalCommand: originalCommandType, ...parsedOriginalMessage }: a field
\* of the spread report wins over the one written before it.
withOriginalCommand(originalCommandType, parsedOriginalMessage) == IF parsedOriginalMessage[1] = "object" THEN JsObject(parsedOriginalMessage[2] @@ [originalCommand |-> originalCommandType]) ELSE JsObject([originalCommand |-> originalCommandType, spread |-> parsedOriginalMessage])

\* parseBufferReport(params, messagePrefix, commandType). The layout of the
\* mnemonic gets params.slice(1); called for the mnemonic BUFF the method calls
\* itself with no mnemonic, which has no layout.
\* The return of parseBufferReport for what the layout of the mnemonic did.
bufferReport(commandType, parsedOriginalMessage) == IF parsedOriginalMessage.ended = "threw" THEN Returned(JsNull) ELSE Returned(withOriginalCommand(JsString(commandType), parsedOriginalMessage.ret))

parseBufferWith(remainingParams, commandType, originalParserFn) == IF originalParserFn # JsUndefined THEN bufferReport(commandType, IF originalParserFn = JsFunction("parseBufferReport") THEN Returned(rawDataReport(JsUndefined, sliceFrom1(remainingParams))) ELSE callLayout(originalParserFn, remainingParams)) ELSE Returned(rawDataReport(JsString(commandType), remainingParams))

parseBufferReport(params, messagePrefix, commandType) == parseBufferWith(sliceFrom1(params), commandType, lookup(asciiParsers, commandType))

MessagePrefixes == {RESP, ACK, BUFF}

\* header.match(/^\+(RESP|ACK|BUFF):([A-Z0-9]+)$/): <<prefix, mnemonic>>, or
\* null.
typeMatchOf(header, prefix) == IF Len(header) > Len(prefix) + 2 /\ \A i \in (Len(prefix) + 3)..Len(header) : header[i] \in UpperAlnum THEN <<prefix, SubSeq(header, Len(prefix) + 3, Len(header))>> ELSE JsNull

typeMatch(header) == IF \E prefix \in MessagePrefixes : startsWith(header, <<"+">> \o prefix \o <<":">>) THEN typeMatchOf(header, CHOOSE prefix \in MessagePrefixes : startsWith(header, <<"+">> \o prefix \o <<":">>)) ELSE JsNull

\* The return of parseASCII for what the method of the mnemonic did.
asciiReport(message, match, result) == IF result.ended = "threw" THEN JsNull ELSE JsObject([originalMessage |-> JsString(message \o <<"$">>), messageType |-> JsString(match[1]), command |-> JsString(match[2]), parsedData |-> result.ret])

\* parserFn.call(this, parts.slice(1), messagePrefix, commandType).
callParser(parserFn, params, messagePrefix, commandType) == IF parserFn = JsFunction("parseBufferReport") THEN parseBufferReport(params, messagePrefix, commandType) ELSE callLayout(parserFn, params)

parseWith(message, parts, match, parserFn) == IF parserFn # JsUndefined THEN asciiReport(message, match, callParser(parserFn, sliceFrom1(parts), match[1], match[2])) ELSE JsNull

parseMatched(message, parts, match) == IF match = JsNull THEN JsNull ELSE parseWith(message, parts, match, IF match[1] = BUFF THEN lookup(asciiParsers, BUFF) ELSE lookup(asciiParsers, match[2]))

parseParts(message, parts) == parseMatched(message, parts, typeMatch(parts[1]))

\* parseASCII(message).
parseASCII(message) == parseParts(message, split(message))

\* c.toUpperCase() for a hexadecimal character.
upperHex(c) == CASE c = "a" -> "A" [] c = "b" -> "B" [] c = "c" -> "C" [] c = "d" -> "D" [] c = "e" -> "E" [] c = "f" -> "F" [] OTHER -> c

\* s.toUpperCase() for the eight characters parseHEX takes.
RECURSIVE toUpperCase(_)
toUpperCase(s) == IF s = <<>> THEN <<>> ELSE <<upperHex(Head(s))>> \o toUpperCase(Tail(s))

\* parseHEX(message). The decoders of the hex families are not unfolded: the
\* parsedData of a family is written as the call of its decoder, which stands
\* for the report the decoder returns.
\* parseHEXACK reads params[0] in the object it returns; the method has no
\* params, so the read is a ReferenceError whatever the message is.
parseHEXACK(hexMessage) == Threw("ReferenceError")

\* parserFn.call(this, message): the decoders of the other families are left as
\* calls.
callFamily(parserFn, message) == IF parserFn = JsFunction("parseHEXACK") THEN parseHEXACK(message) ELSE Returned(<<"call", parserFn, <<message>>>>)

hexReport(message, headerHex, result) == IF result.ended = "threw" THEN JsNull ELSE JsObject([originalMessage |-> JsString(message), messageType |-> JsString(HEX), command |-> JsString(headerHex), parsedData |-> result.ret])

parseHexWith(message, headerHex, parserFn) == IF parserFn # JsUndefined THEN hexReport(message, headerHex, callFamily(parserFn, message)) ELSE JsNull

parseHEX(message) == parseHexWith(message, toUpperCase(substring(message, 0, 8)), lookup(hexParsers, toUpperCase(substring(message, 0, 8))))

\* The length a hex message has to exceed.
MinHexLength == 10

\* message.trim().endsWith('$') ? message.trim().slice(0, -1) : message.trim().
stripTail_Keep(trimmed) == trimmed

stripTail(trimmed) == IF endsWith(trimmed, <<"$">>) THEN SubSeq(trimmed, 1, Len(trimmed) - 1) ELSE trimmed

cleaned(message) == stripTail(trim(message))

\* cleanedMessage.match(/^[0-9A-Fa-f]+$/).
isHexText(s) == s # <<>> /\ \A i \in 1..Len(s) : s[i] \in HexDigits

\* QueclinkParser.parse(message): the method that took the message and what it
\* returned.
parseCleaned(cleanedMessage) == IF \E prefix \in MessagePrefixes : startsWith(cleanedMessage, <<"+">> \o prefix \o <<":">>) THEN [path |-> "parseASCII", report |-> parseASCII(cleanedMessage)] ELSE IF isHexText(cleanedMessage) /\ Len(cleanedMessage) > MinHexLength THEN [path |-> "parseHEX", report |-> parseHEX(cleanedMessage)] ELSE [path |-> "none", report |-> JsNull]

QueclinkParser_parse(message) == IF falsy(message) \/ ~isString(message) THEN [path |-> "none", report |-> JsNull] ELSE parseCleaned(cleaned(message[2]))


\* ---- the relay to the frontend client
\* The two programs that relay device data: src/server.js, which creates its
\* own frontend server (src/unnamed/part_000 is that program with the forward
\* in place), and src/message-handler.js, which imports the frontend server and
\* the relay reference of src/flutter-client.js.
RelayPrograms == {"server", "handler"}

\* if (frontendSocket) { frontendSocket.write(...) } else { console.log('No
\* Flutter client connected to forward data') }
forward(reference) == IF reference # Null THEN "forwarded" ELSE "no client"

\* What the 'data' handler of the device server has when it reaches the
\* forward.  In part_000 the handler calls parse(example) first and has no try
\* block.  In message-handler.js it calls the parse of the queclink-parser
\* package inside a try block: the package is not part of the sources, and its
\* call either returns or throws.
deviceParses(program, data) == IF program = "server" THEN {part_dataHandler(data)} ELSE {Returned(Null), Threw("Error")}

\* ================================================================ the state
\* The framing codec: its functions applied to a byte sequence.  orig is the
\* sequence drawn, buf the sequence after the calls named in trail, sum the
\* checksum computed and bcd the digit text read.
VARIABLES orig, buf, trail, sum, bcd

\* The header decoder: hPayload is a checked payload without its checksum byte,
\* hResult what parseHeader returned for it (null before the call).
VARIABLES hPayload, hResult

\* One message of a device connection: wire is the message in flight (its
\* bytes, how the device built it, and where its body lies in it), flip the
\* bit that the line inverted in it, handled the piece of code that received it,
\* srvResult what the 'data' handler of src/server.js ended with, partCall what
\* the parse of part_000 ended with, partResult what the 'data' handler of
\* part_000 ended with.
VARIABLES wire, flip, handled, srvResult, partCall, partResult

\* The acknowledgement encoder: ackArgs are the arguments of the last
\* sendResponse, written the packet it wrote to the socket (null before), and
\* ackDecoded what ProtocolParser.parse makes of that packet (null before).
VARIABLES ackArgs, written, ackDecoded

\* The message handler: socketWrites is what has been written to each
\* connection, handledCount the number of messages handled, and lastMessage
\* the last of them: the connection and the bytes it came with, what had been
\* written before it, and how handleDeviceMessage ended.
VARIABLES socketWrites, handledCount, lastMessage

\* The text decoder: the number of decode calls made, the value the last call
\* was given, the method that took it with the report it returned, and whether
\* the call before the last returned no report.
VARIABLES qlCalls, qlMessage, qlResult, qlFailedBefore

\* The date-time reader: the value it is given and what it returned.
VARIABLES dtInput, dtResult

\* The signal quality report: the fields parseGTCSQ is given and the report
\* it returned.
VARIABLES csqParams, csqReport

\* A run of the decoders: each call made so far, in order, as the input it was
\* given and the result it returned.
VARIABLES sessLog

\* The relay: the program that runs, each frontend client socket (idle before
\* it connects, then connected, ended, errored, closed), the shared reference
\* frontendSocket (null or a socket), and how the last 'data' event of a device
\* ended, with the clients that were connected at that moment.
VARIABLES relayProgram, clientState, frontendSocket, relayed

codecVars == <<orig, buf, trail, sum, bcd>>

headerVars == <<hPayload, hResult>>

deviceVars == <<wire, flip, handled, srvResult, partCall, partResult>>

encoderVars == <<ackArgs, written, ackDecoded>>

handlerVars == <<socketWrites, handledCount, lastMessage>>

queclinkVars == <<qlCalls, qlMessage, qlResult, qlFailedBefore>>

dateTimeVars == <<dtInput, dtResult>>

csqVars == <<csqParams, csqReport>>

sessionVars == <<sessLog>>

relayVars == <<relayProgram, clientState, frontendSocket, relayed>>

vars == <<codecVars, headerVars, deviceVars, encoderVars, handlerVars, queclinkVars, dateTimeVars, csqVars, sessionVars, relayVars>>

\* What each group of actions leaves alone.
notCodecVars == <<headerVars, deviceVars, encoderVars, handlerVars, queclinkVars, dateTimeVars, csqVars, sessionVars, relayVars>>

notHeaderVars == <<codecVars, deviceVars, encoderVars, handlerVars, queclinkVars, dateTimeVars, csqVars, sessionVars, relayVars>>

notDeviceVars == <<codecVars, headerVars, encoderVars, handlerVars, queclinkVars, dateTimeVars, csqVars, sessionVars, relayVars>>

notEncoderVars == <<codecVars, headerVars, deviceVars, handlerVars, queclinkVars, dateTimeVars, csqVars, sessionVars, relayVars>>

notHandlerVars == <<codecVars, headerVars, deviceVars, encoderVars, queclinkVars, dateTimeVars, csqVars, sessionVars, relayVars>>

notQueclinkVars == <<codecVars, headerVars, deviceVars, encoderVars, handlerVars, dateTimeVars, csqVars, sessionVars, relayVars>>

notDateTimeVars == <<codecVars, headerVars, deviceVars, encoderVars, handlerVars, queclinkVars, csqVars, sessionVars, relayVars>>

notCsqVars == <<codecVars, headerVars, deviceVars, encoderVars, handlerVars, queclinkVars, dateTimeVars, sessionVars, relayVars>>

notSessionVars == <<codecVars, headerVars, deviceVars, encoderVars, handlerVars, queclinkVars, dateTimeVars, csqVars, relayVars>>

notRelayVars == <<codecVars, headerVars, deviceVars, encoderVars, handlerVars, queclinkVars, dateTimeVars, csqVars, sessionVars>>

\* =============================================================== the inputs
\* Bytes that matter to the codec: plain ones, the escape byte, the marker, the
\* second bytes of the escape pairs, and bytes with high bits set.
SampleBytes == {0, 1, 2, 16, 125, 126, 255}

\* Bytes of message bodies: plain ones, the reserved ones and their neighbours.
BodyBytes == {0, 1, 2, 124, 125, 126}

\* The registration message of end-to-end scenario A: its SIM, its serial
\* number and its body of 45 bytes.
ScenarioASim == <<4, 128, 80, 2, 33, 113>>

ScenarioASerial == 28 * 256 + 122

ScenarioABody == <<0, 0, 0, 0, 55, 48, 49, 49, 50, 83, 69, 71, 45, 57, 56, 56, 56, 71, 0, 0, 0, 0, 0, 0, 0, 0, 0, 0, 0, 48, 48, 50, 50, 49, 55, 49, 0, 53, 48, 48, 50, 50, 49, 55, 49>>

\* A SIM number with two leading zero digits.
LeadingZeroSim == <<0, 1, 35, 69, 103, 137>>

Word(v) == <<v \div 256, v % 256>>

DeviceHeader(cmd, props, sim, serial) == Word(cmd) \o Word(props) \o sim \o Word(serial)

\* Payloads given to the header decoder: a header of 12 bytes and what follows.
HeaderCmds == {RegisterId, 2, 65535}

HeaderProps == {0, 1, 1023, 1024, 7168, 8192, 9215, 16383, 16384, 57343, 65535}

HeaderSerials == {0, 258, 65535}

HeaderPayloads == {DeviceHeader(cmd, props, sim, serial) \o tail : cmd \in HeaderCmds, props \in HeaderProps, sim \in {ScenarioASim, LeadingZeroSim}, serial \in HeaderSerials, tail \in SeqsUpTo({1, 255}, MaxLen)}

\* The frame of a device: markers around the stuffed header, body and checksum.
DeviceFrame(header, body, checksum) == [bytes |-> <<FrameMarker>> \o escapeBuffer(header \o body \o <<checksum>>) \o <<FrameMarker>>, kind |-> "valid", bodyFrom |-> 2 + Len(escapeBuffer(header)), bodyTo |-> 1 + Len(escapeBuffer(header \o body))]

ValidFrame(header, body) == DeviceFrame(header, body, part_calculateChecksum(header \o body))

\* The commands a device sends here: registration and heartbeat.
DeviceCmds == {RegisterId, 2}

\* A serial number whose bytes are the escape byte and the marker.
DeviceSerials == {ScenarioASerial, 32126}

\* The headers of a device for a body of n bytes: a registration and a
\* heartbeat that declare the length, a registration that sets the
\* sub-package bit as well, and a registration that declares one byte more
\* than it sends.
DeviceHeaders(n) == {DeviceHeader(RegisterId, n, ScenarioASim, ScenarioASerial), DeviceHeader(2, n, ScenarioASim, 32126), DeviceHeader(RegisterId, n + 8192, ScenarioASim, 32126), DeviceHeader(RegisterId, n + 1, ScenarioASim, ScenarioASerial)}

ScenarioAFrame == ValidFrame(DeviceHeader(RegisterId, Len(ScenarioABody), ScenarioASim, ScenarioASerial), ScenarioABody)

ValidFrames == {ScenarioAFrame} \cup UNION {{ValidFrame(header, body) : header \in DeviceHeaders(Len(body))} : body \in SeqsUpTo(BodyBytes, MaxBody)}

\* What a device or a line can make of a frame: a wrong checksum, a first or a
\* last byte that is no marker, a payload cut short of the header.
BadFrames == UNION {{[f EXCEPT !.kind = "badsum", !.bytes[Len(f.bytes) - 1] = (IF @ = 0 THEN 3 ELSE 0)], [f EXCEPT !.kind = "nohead", !.bytes[1] = 0], [f EXCEPT !.kind = "notail", !.bytes[Len(f.bytes)] = 0]} : f \in ValidFrames}

ShortFrames == {[bytes |-> <<FrameMarker>> \o escapeBuffer(SubSeq(DeviceHeader(cmd, 0, ScenarioASim, 1), 1, n) \o <<part_calculateChecksum(SubSeq(DeviceHeader(cmd, 0, ScenarioASim, 1), 1, n))>>) \o <<FrameMarker>>, kind |-> "short", bodyFrom |-> 1, bodyTo |-> 0] : cmd \in DeviceCmds, n \in {0, HeaderLen - 1}}

JunkFrames == {[bytes |-> b, kind |-> "junk", bodyFrom |-> 1, bodyTo |-> 0] : b \in SeqsUpTo({0, EscapeByte, FrameMarker}, MaxLen) \ {<<>>}}

DeviceFrames == ValidFrames \cup BadFrames \cup ShortFrames \cup JunkFrames

NoFrame == [bytes |-> <<>>, kind |-> "none", bodyFrom |-> 1, bodyTo |-> 0]

NotRun == [ended |-> "none", error |-> "none", ret |-> Null]

NotHandled == [ended |-> "none", result |-> ParseFailure("none")]

\* Arguments of sendResponse: the acknowledgement ids, and a body of 1024 bytes,
\* one more than the length field of the body properties holds.
AckIds == {33024, 32769}

OversizeBody == [k \in 1..(BodyLengthMask + 1) |-> 0]

AckBodies == SeqsUpTo(BodyBytes, MaxBody) \cup {<<0, 2, 0>>, OversizeBody}

NoArgs == [messageId |-> 0, simBuffer |-> <<>>, serialNo |-> 0, bodyBuffer |-> <<>>]

\* The connections of the message handler.
Sockets == {1, 2}

\* The command ids devices send to the handler: the four it acknowledges, one
\* it does not know, and one whose bytes are the escape byte and the marker.
HandlerCmds == {RegisterId, AuthId, HeartbeatId, LocationReportId, 3, 32126}

\* Framed messages with a whole header, with one body byte and without, and one
\* whose SIM starts with zero digits.
HandlerFrames == {ValidFrame(DeviceHeader(cmd, Len(body), ScenarioASim, serial), body).bytes : cmd \in HandlerCmds, serial \in DeviceSerials, body \in {<<>>, <<EscapeByte>>}} \cup {ValidFrame(DeviceHeader(RegisterId, 0, LeadingZeroSim, 0), <<>>).bytes}

\* Framed messages whose payload ends before the serial number.
HandlerShortFrames == {<<FrameMarker>> \o escapeBuffer(SubSeq(DeviceHeader(RegisterId, 0, ScenarioASim, 1), 1, n)) \o <<FrameMarker>> : n \in {0, 2, 11}} \cup {<<FrameMarker>>}

\* Messages with a marker missing.
HandlerUnframed == {[ValidFrame(DeviceHeader(RegisterId, 0, ScenarioASim, ScenarioASerial), <<>>).bytes EXCEPT ![1] = 0], LET f == ValidFrame(DeviceHeader(HeartbeatId, 0, ScenarioASim, ScenarioASerial), <<>>).bytes IN [f EXCEPT ![Len(f)] = 0]}

HandlerData == HandlerFrames \cup HandlerShortFrames \cup HandlerUnframed

NoMessage == [socket |-> 0, data |-> <<>>, before |-> [c \in Sockets |-> <<>>], ended |-> "none", error |-> "none"]

\* ---- the messages of the text decoder
\* The fields of a GTOER report as a device sends them, those of a GTOPN or
\* GTOPF report, of a GTOBD report and of a GTOSM report.
GTOERFields == <<<<"5", "E", "0", "1", "0", "0">>, <<"1", "3", "5", "7", "9", "0", "2", "4", "6", "8", "1", "1", "2", "2", "0">>, <<"1", "G", "1", "J", "C", "5", "4", "4", "4", "R", "7", "2", "5", "2", "3", "6", "7">>, <<>>, <<"2", "0", "0">>, <<"3", "3">>, <<>>, <<"0">>, <<"4", ".", "3">>, <<"9", "2">>, <<"7", "0", ".", "0">>, <<"1", "2", "1", ".", "3", "5", "4", "3", "3", "5">>, <<"3", "1", ".", "2", "2", "2", "0", "7", "3">>, <<"2", "0", "0", "9", "0", "2", "1", "4", "0", "1", "3", "2", "5", "4">>, <<"0", "4", "6", "0">>, <<"0", "0", "0", "0">>, <<"1", "8", "D", "8">>, <<"6", "1", "4", "1">>, <<>>, <<"2", "0", "0", "9", "0", "2", "1", "4", "0", "9", "3", "2", "5", "4">>, <<"1", "1", "F", "0">>>>

GTOPNFields == <<<<"5", "E", "0", "1", "0", "0">>, <<"1", "3", "5", "7", "9", "0", "2", "4", "6", "8", "1", "1", "2", "2", "0">>, <<"1", "G", "1", "J", "C", "5", "4", "4", "4", "R", "7", "2", "5", "2", "3", "6", "7">>, <<>>, <<"0">>, <<"4", ".", "3">>, <<"9", "2">>, <<"7", "0", ".", "0">>, <<"1", "2", "1", ".", "3", "5", "4", "3", "3", "5">>, <<"3", "1", ".", "2", "2", "2", "0", "7", "3">>, <<"2", "0", "0", "9", "0", "2", "1", "4", "0", "1", "3", "2", "5", "4">>, <<"0", "4", "6", "0">>, <<"0", "0", "0", "0">>, <<"1", "8", "D", "8">>, <<"6", "1", "4", "1">>, <<>>, <<"2", "0", "0", "9", "0", "2", "1", "4", "0", "9", "3", "2", "5", "4">>, <<"1", "1", "F", "0">>>>

GTOBDFields == <<<<"5", "E", "0", "1", "0", "0">>, <<"1", "3", "5", "7", "9", "0", "2", "4", "6", "8", "1", "1", "2", "2", "0">>, <<"1", "G", "1", "J", "C", "5", "4", "4", "4", "R", "7", "2", "5", "2", "3", "6", "7">>, <<>>, <<"0">>, <<"3", "F", "F", "F", "F", "F">>, <<"1", "G", "1", "J", "C", "5", "4", "4", "4", "R", "7", "2", "5", "2", "3", "6", "7">>, <<"1">>, <<"1", "2", "0", "0", "0">>, <<"9", "8", "3", "A", "8", "1", "4", "0">>, <<"8", "5", "0">>, <<"4", "0">>, <<"9", "0">>, <<"7", ".", "5">>, <<"0">>, <<"0">>, <<"0">>, <<"0">>, <<>>, <<"1", "2">>, <<"3", "0">>, <<"5", "0">>, <<"3", "3">>, <<"1", "2", "0", "0", ".", "5">>, <<"0">>, <<"4", ".", "3">>, <<"9", "2">>, <<"7", "0", ".", "0">>, <<"1", "2", "1", ".", "3", "5", "4", "3", "3", "5">>, <<"3", "1", ".", "2", "2", "2", "0", "7", "3">>, <<"2", "0", "0", "9", "0", "2", "1", "4", "0", "1", "3", "2", "5", "4">>, <<"0", "4", "6", "0">>, <<"0", "0", "0", "0">>, <<"1", "8", "D", "8">>, <<"6", "1", "4", "1">>, <<>>, <<"1", "3", "0", "0", ".", "0">>, <<"2", "0", "0", "9", "0", "2", "1", "4", "0", "9", "3", "2", "5", "4">>, <<"1", "1", "F", "0">>>>

GTOSMFields == <<<<"5", "E", "0", "1", "0", "0">>, <<"1", "3", "5", "7", "9", "0", "2", "4", "6", "8", "1", "1", "2", "2", "0">>, <<"1", "G", "1", "J", "C", "5", "4", "4", "4", "R", "7", "2", "5", "2", "3", "6", "7">>, <<>>, <<"1">>, <<"0">>, <<"3", "F", "F", "F", "F", "F">>, <<"1", "G", "1", "J", "C", "5", "4", "4", "4", "R", "7", "2", "5", "2", "3", "6", "7">>, <<"1">>, <<"1", "2", "0", "0", "0">>, <<"9", "8", "3", "A", "8", "1", "4", "0">>, <<"8", "5", "0">>, <<"4", "0">>, <<"9", "0">>, <<"7", ".", "5">>, <<"0">>, <<"0">>, <<"0">>, <<"0">>, <<>>, <<"1", "2">>, <<"3", "0">>, <<"5", "0">>, <<"3", "3">>, <<"0">>, <<"4", ".", "3">>, <<"9", "2">>, <<"7", "0", ".", "0">>, <<"1", "2", "1", ".", "3", "5", "4", "3", "3", "5">>, <<"3", "1", ".", "2", "2", "2", "0", "7", "3">>, <<"2", "0", "0", "9", "0", "2", "1", "4", "0", "1", "3", "2", "5", "4">>, <<"0", "4", "6", "0">>, <<"0", "0", "0", "0">>, <<"1", "8", "D", "8">>, <<"6", "1", "4", "1">>, <<>>, <<"1", "3", "0", "0", ".", "0">>, <<"2", "0", "0", "9", "0", "2", "1", "4", "0", "9", "3", "2", "5", "4">>, <<"1", "1", "F", "0">>>>

GTOER == <<"G", "T", "O", "E", "R">>

GTOPN == <<"G", "T", "O", "P", "N">>

GTOPF == <<"G", "T", "O", "P", "F">>

GTOBD == <<"G", "T", "O", "B", "D">>

GTOSM == <<"G", "T", "O", "S", "M">>

\* A mnemonic with no layout.
GTXYZ == <<"G", "T", "X", "Y", "Z">>

\* The first n fields of a field list, and the list with field index (from 0)
\* replaced.
firstFields(fields, n) == SubSeq(fields, 1, n)

withField(fields, index, text) == [fields EXCEPT ![index + 1] = text]

\* The field lists sent for GTOER: whole, with the OBD protocol field empty or
\* of one digit or unknown, with numbers that do not parse or parse in part,
\* with a date that does not exist, and cut before and after the OBD protocol
\* field.
GTOERLists == {GTOERFields, withField(GTOERFields, 5, <<>>), withField(GTOERFields, 5, <<"7">>), withField(GTOERFields, 7, <<"x">>), withField(GTOERFields, 9, <<"1", "2", "a", "b", "c">>), withField(GTOERFields, 13, <<"2", "0", "0", "9", "0", "2", "3", "0", "0", "1", "3", "2", "5", "4">>), firstFields(GTOERFields, 5), firstFields(GTOERFields, 6), firstFields(GTOERFields, 20)}

GTOPNLists == {GTOPNFields, withField(GTOPNFields, 0, <<"Z", "Z", "0", "1">>), firstFields(GTOPNFields, 4)}

\* The field lists sent for GTOBD and GTOSM: whole, with the OBD protocol field
\* empty, and cut to 32 and to 31 fields.
GTOBDLists == {GTOBDFields, withField(GTOBDFields, 22, <<>>), firstFields(GTOBDFields, 32), firstFields(GTOBDFields, 31)}

GTOSMLists == {GTOSMFields, withField(GTOSMFields, 23, <<>>), firstFields(GTOSMFields, 31)}

\* <<mnemonic, field list>> of the reports sent.
Sent == ({GTOER, GTXYZ} \X GTOERLists) \cup ({GTOPN, GTOPF} \X GTOPNLists) \cup ({GTOBD} \X GTOBDLists) \cup ({GTOSM} \X GTOSMLists)

\* '+' prefix ':' mnemonic ',' fields.
asciiMessage(prefix, mnemonic, fields) == <<"+">> \o prefix \o <<":">> \o mnemonic \o <<",">> \o join(fields)

AsciiMessages == {asciiMessage(prefix, sent[1], sent[2]) : prefix \in MessagePrefixes, sent \in Sent}

\* Messages whose header is malformed: a mnemonic in lower case, no mnemonic, a
\* blank in the mnemonic, no colon, and a class that is none of the three.
MalformedMessages == {<<"+", "R", "E", "S", "P", ":", "g", "t", "o", "e", "r", ",">> \o join(GTOERFields), <<"+", "R", "E", "S", "P", ":", ",">> \o join(GTOERFields), <<"+", "R", "E", "S", "P", ":", "G", "T", " ", "O", "E", "R", ",">> \o join(GTOERFields), <<"+", "A", "C", "K", ":", "G", "T", "O", "E", "R", "$", "X", ",">> \o join(GTOERFields), <<"+", "R", "E", "S", "P", "X", ":", "G", "T", "O", "E", "R", ",">> \o join(GTOERFields), <<"+", "B", "U", "F", "F", ":">>}

\* Hex messages: of a registered family in upper and lower case, of no family,
\* of the minimum length and one more, and texts that are neither.
HexMessages == {<<"2", "B", "4", "F", "4", "2", "4", "4", "0", "0", "1", "1", "2", "2", "3", "3">>, <<"2", "b", "4", "f", "4", "2", "4", "4", "0", "0", "1", "1", "2", "2", "3", "3">>, <<"F", "F", "F", "F", "F", "F", "F", "F", "F", "F", "F", "F">>, <<"2", "B", "4", "F", "4", "2", "4", "4", "0", "0">>, <<"2", "B", "4", "F", "4", "2", "4", "4", "0", "0", "1">>}

OtherTexts == {<<>>, <<" ">>, <<"$">>, <<"h", "e", "l", "l", "o">>, <<"2", "B", "4", "F", "4", "2", "4", "4", "0", "0", "1", "G">>}

\* A message as it is, with the tail character, and with the tail character
\* inside surrounding white space.
withTail(text) == text \o <<"$">>

Decorated(text) == {text, withTail(text), <<" ">> \o withTail(text) \o <<"\r", "\n">>}

QueclinkTexts == UNION {Decorated(text) : text \in AsciiMessages \cup MalformedMessages \cup HexMessages \cup OtherTexts}

\* ---- further messages of the text decoder
GTCID == <<"G", "T", "C", "I", "D">>

GTGSV == <<"G", "T", "G", "S", "V">>

GTALM == <<"G", "T", "A", "L", "M">>

GTMPN == <<"G", "T", "M", "P", "N">>

GTMPF == <<"G", "T", "M", "P", "F">>

GTBTC == <<"G", "T", "B", "T", "C">>

GTCIDFields == <<<<"5", "E", "0", "1", "0", "0">>, <<"1", "3", "5", "7", "9", "0", "2", "4", "6", "8", "1", "1", "2", "2", "0">>, <<"1", "G", "1", "J", "C", "5", "4", "4", "4", "R", "7", "2", "5", "2", "3", "6", "7">>, <<>>, <<"8", "9", "8", "6", "0", "0", "8", "1", "0", "9", "0", "6", "F", "8", "0", "4", "8", "8", "1", "2">>, <<"2", "0", "0", "9", "0", "2", "1", "4", "0", "9", "3", "2", "5", "4">>, <<"1", "1", "F", "0">>>>

\* The example, another ICCID, and other count numbers.
GTCIDLists == {GTCIDFields, withField(GTCIDFields, 4, <<"8", "9", "8", "6">>), withField(GTCIDFields, 6, <<"0", "0", "F", "F">>), withField(GTCIDFields, 6, <<"1", "1", "f", "0">>)}

\* A satellite report of count 3 with its 3 pairs.
GTGSVFields == <<<<"5", "E", "0", "1", "0", "0">>, <<"1", "3", "5", "7", "9", "0", "2", "4", "6", "8", "1", "1", "2", "2", "0">>, <<>>, <<>>, <<"3">>, <<"3">>, <<"4", "2">>, <<"4">>, <<"4", "8">>, <<"1", "4">>, <<"0">>, <<"2", "0", "1", "6", "0", "4", "0", "5", "1", "3", "3", "8", "5", "1">>, <<"0", "0", "0", "B">>>>

\* The report cut to a count with its pairs, the send time and the count number.
gsvList(count, pairs) == <<GTGSVFields[1], GTGSVFields[2], GTGSVFields[3], GTGSVFields[4], count>> \o SubSeq(GTGSVFields, 6, 5 + 2 * pairs) \o SubSeq(GTGSVFields, 12, 13)

\* Counts that match the pairs present, counts that are empty or no number, and
\* counts above the pairs present.
GTGSVLists == {gsvList(<<"3">>, 3), gsvList(<<"2">>, 2), gsvList(<<"1">>, 1), gsvList(<<"0">>, 0), gsvList(<<>>, 0), gsvList(<<>>, 2), gsvList(<<"x">>, 2), gsvList(<<"3">>, 2), gsvList(<<"2">>, 0), gsvList(<<"1">>, 3)}

GTMPNFields == <<<<"5", "E", "0", "1", "0", "0">>, <<"1", "3", "5", "7", "9", "0", "2", "4", "6", "8", "1", "1", "2", "2", "0">>, <<"1", "G", "1", "J", "C", "5", "4", "4", "4", "R", "7", "2", "5", "2", "3", "6", "7">>, <<>>, <<"0">>, <<"4", ".", "3">>, <<"9", "2">>, <<"7", "0", ".", "0">>, <<"1", "2", "1", ".", "3", "5", "4", "3", "3", "5">>, <<"3", "1", ".", "2", "2", "2", "0", "7", "3">>, <<"2", "0", "0", "9", "0", "2", "1", "4", "0", "1", "3", "2", "5", "4">>, <<"0", "4", "6", "0">>, <<"0", "0", "0", "0">>, <<"1", "8", "D", "8">>, <<"6", "1", "4", "1">>, <<"0", "0">>, <<"2", "0", "0", "9", "0", "2", "1", "4", "0", "9", "3", "2", "5", "4">>, <<"1", "1", "F", "0">>>>

\* The example, the example with an empty fifth field, with one that is no
\* number, and with an empty fifth field and 17 fields.
GTMPNLists == {GTMPNFields, withField(GTMPNFields, 4, <<>>), withField(GTMPNFields, 4, <<"x">>), firstFields(withField(GTMPNFields, 4, <<>>), 17)}

\* A configuration report with a section of a tag parseGTALM names, and one
\* with a section of a tag it does not name.
GTALMLists == {<<<<"5", "E", "0", "1", "0", "0">>, <<"1", "3", "5", "7", "9", "0", "2", "4", "6", "8", "1", "1", "2", "2", "0">>, <<"2", "0", "0", "9", "0", "2", "1", "4", "0", "9", "3", "2", "5", "4">>, <<"1", "1", "F", "0">>, <<"B", "S", "I">>, <<"a", "p", "n">>, <<"u", "s", "e", "r">>, <<"p", "a", "s", "s">>, <<>>, <<>>, <<>>, <<"0">>, <<"0">>>>, <<<<"5", "E", "0", "1", "0", "0">>, <<"1", "3", "5", "7", "9", "0", "2", "4", "6", "8", "1", "1", "2", "2", "0">>, <<"2", "0", "0", "9", "0", "2", "1", "4", "0", "9", "3", "2", "5", "4">>, <<"1", "1", "F", "0">>, <<"X", "Y", "Z">>, <<"1">>, <<"2">>, <<"3">>>>}

MoreSent == ({GTCID} \X GTCIDLists) \cup ({GTGSV} \X GTGSVLists) \cup ({GTMPN, GTMPF, GTBTC} \X GTMPNLists) \cup ({GTALM} \X GTALMLists)

\* Each of them under +RESP and +BUFF, with the tail character.
MoreMessages == {withTail(asciiMessage(prefix, sent[1], sent[2])) : prefix \in {RESP, BUFF}, sent \in MoreSent}

\* Hex messages of the +ACK family, in capitals and not, of the +ATI family, of
\* the six other families of the registry, and of no family.
MoreHexMessages == {<<"2", "B", "4", "1", "4", "3", "4", "B", "0", "B", "0", "0", "F", "C", "0", "0", "9", "4">>, <<"2", "b", "4", "1", "4", "3", "4", "b", "0", "b", "0", "0", "f", "c", "0", "0", "9", "4">>, <<"2", "B", "4", "1", "5", "4", "4", "9", "0", "0", "1", "1", "2", "2", "3", "3", "4", "4">>, <<"2", "B", "5", "2", "5", "3", "5", "0", "0", "0", "1", "1", "2", "2", "3", "3", "4", "4">>, <<"2", "B", "4", "5", "5", "6", "5", "4", "0", "0", "1", "1", "2", "2", "3", "3", "4", "4">>, <<"2", "B", "4", "9", "4", "E", "4", "6", "0", "0", "1", "1", "2", "2", "3", "3", "4", "4">>, <<"2", "B", "4", "8", "4", "2", "4", "4", "0", "0", "1", "1", "2", "2", "3", "3", "4", "4">>, <<"2", "B", "4", "3", "5", "2", "4", "4", "0", "0", "1", "1", "2", "2", "3", "3", "4", "4">>, <<"2", "B", "4", "F", "4", "2", "4", "4", "0", "0", "1", "1", "2", "2", "3", "3", "4", "4">>, <<"2", "B", "5", "8", "5", "9", "5", "A", "0", "0", "1", "1", "2", "2", "3", "3", "4", "4">>}

\* What a caller can hand to parse: a text, or a value that is no string.
QueclinkInputs == {JsString(text) : text \in QueclinkTexts \cup MoreMessages \cup MoreHexMessages} \cup {JsNull, JsUndefined, JsNumber(5), JsBuffer(withTail(asciiMessage(RESP, GTOER, GTOERFields)))}

\* The chunks a device sends to the server.
DeviceChunks == {withTail(asciiMessage(RESP, GTOER, GTOERFields)), withTail(asciiMessage(BUFF, GTOPN, GTOPNFields)), <<"2", "B", "4", "F", "4", "2", "4", "4", "0", "0", "1", "1", "2", "2", "3", "3">>}

\* The calls of parse: each value a caller hands over with what parse returns
\* for it, and the same for the chunks as the server hands them over.
parseCalls == {<<message, QueclinkParser_parse(message)>> : message \in QueclinkInputs}

\* The messages that follow the first one: a report, the same report buffered,
\* a report of a mnemonic with no layout, a hex message and a message with a
\* malformed header.
LaterInputs == {JsString(withTail(asciiMessage(RESP, GTOER, GTOERFields))), JsString(withTail(asciiMessage(BUFF, GTOER, GTOERFields))), JsString(withTail(asciiMessage(RESP, GTXYZ, GTOERFields))), JsString(<<"2", "B", "4", "F", "4", "2", "4", "4", "0", "0", "1", "1", "2", "2", "3", "3">>), JsString(<<"+", "R", "E", "S", "P", ":", ",">> \o join(GTOERFields))}

laterCalls == {<<message, QueclinkParser_parse(message)>> : message \in LaterInputs}

dataCalls == {<<JsBuffer(chunk), QueclinkParser_parse(JsBuffer(chunk))>> : chunk \in DeviceChunks}

NotDecoded == [path |-> "none", report |-> JsUndefined]

\* ---- the values given to the date-time reader
Years == {<<"2", "0", "2", "3">>, <<"2", "0", "2", "4">>, <<"0", "0", "9", "9">>}

Months == {<<"0", "0">>, <<"0", "2">>, <<"1", "2">>, <<"1", "3">>, <<"1", "x">>, <<" ", "2">>, <<"x", "x">>}

Days == {<<"0", "0">>, <<"0", "1">>, <<"2", "9">>, <<"3", "0">>, <<"3", "1">>, <<"3", "2">>, <<"5", "x">>}

Hours == {<<"0", "0">>, <<"2", "3">>, <<"2", "4">>}

Minutes == {<<"0", "0">>, <<"6", "0">>}

Seconds == {<<"0", "0">>, <<"5", "9">>}

DateTimeTexts == {year \o month \o day \o hour \o minute \o second : year \in Years, month \in Months, day \in Days, hour \in Hours, minute \in Minutes, second \in Seconds}

\* Texts of 14 characters, of 13 and of 15, the empty text and no text.
DateTimeInputs == {JsString(text) : text \in DateTimeTexts} \cup {JsString(SubSeq(text, 1, 13)) : text \in DateTimeTexts} \cup {JsString(text \o <<"0">>) : text \in DateTimeTexts} \cup {JsString(<<>>), JsUndefined, JsNull}

NotRead == <<"not read">>


\* ---- the fields given to the signal quality report
\* Codes 0 to 32, 98 to 100, a negative one, the empty field and texts that are
\* no number or begin with one.
CsqTexts == {<<"0">>, <<"1">>, <<"2">>, <<"3">>, <<"4">>, <<"5">>, <<"6">>, <<"7">>, <<"8">>, <<"9">>, <<"1", "0">>, <<"1", "1">>, <<"1", "2">>, <<"1", "3">>, <<"1", "4">>, <<"1", "5">>, <<"1", "6">>, <<"1", "7">>, <<"1", "8">>, <<"1", "9">>, <<"2", "0">>, <<"2", "1">>, <<"2", "2">>, <<"2", "3">>, <<"2", "4">>, <<"2", "5">>, <<"2", "6">>, <<"2", "7">>, <<"2", "8">>, <<"2", "9">>, <<"3", "0">>, <<"3", "1">>, <<"3", "2">>, <<"9", "8">>, <<"9", "9">>, <<"1", "0", "0">>, <<"-", "1">>, <<>>, <<"a", "b", "c">>, <<"5", "x">>, <<" ", "7">>}

GTCSQFields == <<<<"5", "E", "0", "1", "0", "0">>, <<"1", "3", "5", "7", "9", "0", "2", "4", "6", "8", "1", "1", "2", "2", "0">>, <<"1", "G", "1", "J", "C", "5", "4", "4", "4", "R", "7", "2", "5", "2", "3", "6", "7">>, <<>>, <<"1", "6">>, <<"0">>, <<"2", "0", "0", "9", "0", "2", "1", "4", "0", "9", "3", "2", "5", "4">>, <<"1", "1", "F", "0">>>>

\* The example with each pair of codes, and the example cut before the codes
\* and between them.
GTCSQLists == {withField(withField(GTCSQFields, 4, rssi), 5, ber) : rssi \in CsqTexts, ber \in CsqTexts} \cup {firstFields(GTCSQFields, 4), firstFields(GTCSQFields, 5)}

NotParsed == <<"not parsed">>



\* ---- the calls of a run of the decoders
\* Frames for ProtocolParser.parse: a registration frame, the same with a wrong
\* checksum, a frame with nothing between its markers, and a byte that is no
\* frame.
SessionFrames == {ScenarioAFrame.bytes, [ScenarioAFrame.bytes EXCEPT ![Len(ScenarioAFrame.bytes) - 1] = (IF @ = 0 THEN 3 ELSE 0)], <<FrameMarker, FrameMarker>>, <<0>>}

\* Each frame with what ProtocolParser.parse returns for it.
frameCalls == {<<bytes, parse(bytes)>> : bytes \in SessionFrames}

\* The frontend client sockets of a run, and the relay before a device has sent
\* anything.
Clients == 1..MaxClients

NotRelayed == [outcome |-> "none", to |-> Null, connected |-> {}]

connectedClients(state) == {c \in Clients : state[c] = "connected"}

\* ============================================================== the actions
Unescape == trail \in {<<>>, <<"escapeBuffer">>} /\ buf' = unescape(buf) /\ trail' = Append(trail, "unescape") /\ UNCHANGED <<orig, sum, bcd>> /\ UNCHANGED notCodecVars

PartUnescape == trail \in {<<>>, <<"escapeBuffer">>} /\ buf' = part_unescape(buf) /\ trail' = Append(trail, "part_unescape") /\ UNCHANGED <<orig, sum, bcd>> /\ UNCHANGED notCodecVars

Escape == trail \in {<<>>, <<"unescape">>} /\ buf' = escapeBuffer(buf) /\ trail' = Append(trail, "escapeBuffer") /\ UNCHANGED <<orig, sum, bcd>> /\ UNCHANGED notCodecVars

Checksum == trail = <<>> /\ sum' = calculateChecksum(buf) /\ trail' = <<"calculateChecksum">> /\ UNCHANGED <<orig, buf, bcd>> /\ UNCHANGED notCodecVars

PartChecksum == trail = <<>> /\ sum' = part_calculateChecksum(buf) /\ trail' = <<"part_calculateChecksum">> /\ UNCHANGED <<orig, buf, bcd>> /\ UNCHANGED notCodecVars

ReadBcd == trail = <<>> /\ bcd' = readBcd(buf, 0, Len(buf)) /\ trail' = <<"readBcd">> /\ UNCHANGED <<orig, buf, sum>> /\ UNCHANGED notCodecVars

PartReadBcd == trail = <<>> /\ bcd' = part_readBcd(buf, 0, Len(buf)) /\ trail' = <<"part_readBcd">> /\ UNCHANGED <<orig, buf, sum>> /\ UNCHANGED notCodecVars

\* parse hands the checked payload to parseHeader.
ParseHeader == hResult = Null /\ hResult' = Some(parseHeader(hPayload)) /\ UNCHANGED hPayload /\ UNCHANGED notHeaderVars

\* b with bit k inverted.
FlipBit(b, k) == IF (b \div (2 ^ k)) % 2 = 1 THEN b - 2 ^ k ELSE b + 2 ^ k

\* The line inverts one bit of one body byte of a valid frame.
CorruptBit == handled = "none" /\ flip = Null /\ wire.kind = "valid" /\ (\E pos \in wire.bodyFrom..wire.bodyTo, bit \in 0..7 : wire' = [wire EXCEPT !.bytes[pos] = FlipBit(@, bit)] /\ flip' = Some([pos |-> pos, bit |-> bit, sent |-> wire.bytes])) /\ UNCHANGED <<handled, srvResult, partCall, partResult>> /\ UNCHANGED notDeviceVars

\* The message reaches the device server of src/server.js.
ServerData == handled = "none" /\ handled' = "server.js" /\ srvResult' = dataHandler(wire.bytes) /\ UNCHANGED <<wire, flip, partCall, partResult>> /\ UNCHANGED notDeviceVars

\* The hexadecimal text of the message is given to the parse of part_000.
PartParse == handled = "none" /\ handled' = "part_parse" /\ partCall' = part_parse(toStringHex(wire.bytes)) /\ UNCHANGED <<wire, flip, srvResult, partResult>> /\ UNCHANGED notDeviceVars

\* The message reaches the device server of part_000.
PartData == handled = "none" /\ handled' = "part_000" /\ partResult' = part_dataHandler(wire.bytes) /\ UNCHANGED <<wire, flip, srvResult, partCall>> /\ UNCHANGED notDeviceVars

\* A handler calls sendResponse, which writes the packet to the socket.
SendResponse == written = Null /\ (\E messageId \in AckIds, simBuffer \in {ScenarioASim, LeadingZeroSim}, serialNo \in DeviceSerials \cup {0}, bodyBuffer \in AckBodies : ackArgs' = [messageId |-> messageId, simBuffer |-> simBuffer, serialNo |-> serialNo, bodyBuffer |-> bodyBuffer] /\ written' = Some(sendResponse(messageId, simBuffer, serialNo, bodyBuffer))) /\ UNCHANGED ackDecoded /\ UNCHANGED notEncoderVars

\* The packet written is decoded by ProtocolParser.parse.
DecodeAck == written # Null /\ ackDecoded = Null /\ ackDecoded' = Some(parse(written[1])) /\ UNCHANGED <<ackArgs, written>> /\ UNCHANGED notEncoderVars

\* A 'data' event of a connection: handleDeviceMessage(socket, data) runs to
\* its end, and what it writes goes to that socket.
HandleDeviceMessage == handledCount < MaxMessages /\ (\E socket \in Sockets, data \in HandlerData : lastMessage' = [socket |-> socket, data |-> data, before |-> socketWrites, ended |-> handleDeviceMessage(data).ended, error |-> handleDeviceMessage(data).error] /\ socketWrites' = [socketWrites EXCEPT ![socket] = @ \o handleDeviceMessage(data).wrote]) /\ handledCount' = handledCount + 1 /\ UNCHANGED notHandlerVars

\* QueclinkParser.parse, src/parser.js: a caller has a message decoded, any of
\* QueclinkInputs first and one of LaterInputs after. The call reads the
\* registries and assigns nothing of the parser.
Decode == qlCalls < MaxMessages /\ (\E call \in (IF qlCalls = 0 THEN parseCalls ELSE laterCalls) : qlMessage' = call[1] /\ qlResult' = call[2]) /\ qlFailedBefore' = (qlCalls > 0 /\ qlResult.report = JsNull) /\ qlCalls' = qlCalls + 1 /\ UNCHANGED notQueclinkVars

\* socket.on('data'), src/quecklink_server.js: the handler makes a parser and
\* gives parse the chunk as the Buffer it received, logs what comes back and
\* writes nothing to a socket.
DeviceData == qlCalls < MaxMessages /\ (\E call \in dataCalls : qlMessage' = call[1] /\ qlResult' = call[2]) /\ qlFailedBefore' = (qlCalls > 0 /\ qlResult.report = JsNull) /\ qlCalls' = qlCalls + 1 /\ UNCHANGED notQueclinkVars

\* QueclinkParser._parseDateTime, src/parser.js.
ParseDateTime == dtResult = NotRead /\ dtResult' = _parseDateTime(dtInput) /\ UNCHANGED dtInput /\ UNCHANGED notDateTimeVars


\* parseGTCSQ on a list of fields.
ParseGTCSQ == csqReport = NotParsed /\ csqReport' = parseGTCSQ(csqParams).ret /\ UNCHANGED csqParams /\ UNCHANGED notCsqVars


\* A decode call of the text and hex decoder that returns nothing new after a
\* call that failed.
DecodeText_Sticky == Len(sessLog) < MaxCalls /\ (\E call \in laterCalls : sessLog' = Append(sessLog, <<<<"text", call[1]>>, IF sessLog # <<>> /\ sessLog[Len(sessLog)][1][1] = "text" /\ sessLog[Len(sessLog)][2].report = JsNull THEN sessLog[Len(sessLog)][2] ELSE call[2]>>)) /\ UNCHANGED notSessionVars

\* One more call of QueclinkParser.parse, on a text or a hex message: it reads
\* its argument and the two registries, which nothing assigns after the
\* constructor.
DecodeText == Len(sessLog) < MaxCalls /\ (\E call \in laterCalls : sessLog' = Append(sessLog, <<<<"text", call[1]>>, call[2]>>)) /\ UNCHANGED notSessionVars

\* One more call of ProtocolParser.parse, a static method that reads its
\* argument only.
DecodeFrame == Len(sessLog) < MaxCalls /\ (\E call \in frameCalls : sessLog' = Append(sessLog, <<<<"frame", call[1]>>, call[2]>>)) /\ UNCHANGED notSessionVars

\* The connection handler of the frontend server: the new socket becomes the
\* relay reference.
FrontendConnection(c) == clientState[c] = "idle" /\ clientState' = [clientState EXCEPT ![c] = "connected"] /\ frontendSocket' = Some(c) /\ UNCHANGED <<relayProgram, relayed>> /\ UNCHANGED notRelayVars

\* socket.on('end'): the client ended the connection.
SocketEnd(c) == clientState[c] = "connected" /\ clientState' = [clientState EXCEPT ![c] = "ended"] /\ frontendSocket' = Null /\ UNCHANGED <<relayProgram, relayed>> /\ UNCHANGED notRelayVars

\* socket.on('error'), on a socket that is connected or has ended.
SocketError(c) == clientState[c] \in {"connected", "ended"} /\ clientState' = [clientState EXCEPT ![c] = "errored"] /\ frontendSocket' = Null /\ UNCHANGED <<relayProgram, relayed>> /\ UNCHANGED notRelayVars

\* socket.on('close'), which follows 'end' or 'error'.  flutter-client.js
\* registers no handler for it.
SocketClose(c) == clientState[c] \in {"ended", "errored"} /\ clientState' = [clientState EXCEPT ![c] = "closed"] /\ frontendSocket' = (IF relayProgram = "server" THEN Null ELSE frontendSocket) /\ UNCHANGED <<relayProgram, relayed>> /\ UNCHANGED notRelayVars

\* The 'data' handler of the device server: the forward is reached when the
\* parse before it returned.
RelayDeviceData == (\E data \in SessionFrames : \E parsed \in deviceParses(relayProgram, data) : relayed' = (IF parsed.ended = "returned" THEN [outcome |-> forward(frontendSocket), to |-> frontendSocket, connected |-> connectedClients(clientState)] ELSE [outcome |-> "threw", to |-> Null, connected |-> connectedClients(clientState)])) /\ UNCHANGED <<relayProgram, clientState, frontendSocket>> /\ UNCHANGED notRelayVars

\* ======================================================= the specifications
InitCodec == orig \in SeqsUpTo(SampleBytes, MaxLen) /\ buf = orig /\ trail = <<>> /\ sum = Undefined /\ bcd = <<>> /\ hPayload = <<>> /\ hResult = Null /\ wire = NoFrame /\ flip = Null /\ handled = "none" /\ srvResult = NotHandled /\ partCall = NotRun /\ partResult = NotRun /\ ackArgs = NoArgs /\ written = Null /\ ackDecoded = Null /\ socketWrites = [c \in Sockets |-> <<>>] /\ handledCount = 0 /\ lastMessage = NoMessage /\ qlCalls = 0 /\ qlMessage = JsUndefined /\ qlResult = NotDecoded /\ qlFailedBefore = FALSE /\ dtInput = JsUndefined /\ dtResult = NotRead /\ csqParams = <<>> /\ csqReport = NotParsed /\ sessLog = <<>> /\ relayProgram = "server" /\ clientState = [c \in Clients |-> "idle"] /\ frontendSocket = Null /\ relayed = NotRelayed

InitHeader == orig = <<>> /\ buf = <<>> /\ trail = <<>> /\ sum = Undefined /\ bcd = <<>> /\ hPayload \in HeaderPayloads /\ hResult = Null /\ wire = NoFrame /\ flip = Null /\ handled = "none" /\ srvResult = NotHandled /\ partCall = NotRun /\ partResult = NotRun /\ ackArgs = NoArgs /\ written = Null /\ ackDecoded = Null /\ socketWrites = [c \in Sockets |-> <<>>] /\ handledCount = 0 /\ lastMessage = NoMessage /\ qlCalls = 0 /\ qlMessage = JsUndefined /\ qlResult = NotDecoded /\ qlFailedBefore = FALSE /\ dtInput = JsUndefined /\ dtResult = NotRead /\ csqParams = <<>> /\ csqReport = NotParsed /\ sessLog = <<>> /\ relayProgram = "server" /\ clientState = [c \in Clients |-> "idle"] /\ frontendSocket = Null /\ relayed = NotRelayed

InitDevice == orig = <<>> /\ buf = <<>> /\ trail = <<>> /\ sum = Undefined /\ bcd = <<>> /\ hPayload = <<>> /\ hResult = Null /\ wire \in DeviceFrames /\ flip = Null /\ handled = "none" /\ srvResult = NotHandled /\ partCall = NotRun /\ partResult = NotRun /\ ackArgs = NoArgs /\ written = Null /\ ackDecoded = Null /\ socketWrites = [c \in Sockets |-> <<>>] /\ handledCount = 0 /\ lastMessage = NoMessage /\ qlCalls = 0 /\ qlMessage = JsUndefined /\ qlResult = NotDecoded /\ qlFailedBefore = FALSE /\ dtInput = JsUndefined /\ dtResult = NotRead /\ csqParams = <<>> /\ csqReport = NotParsed /\ sessLog = <<>> /\ relayProgram = "server" /\ clientState = [c \in Clients |-> "idle"] /\ frontendSocket = Null /\ relayed = NotRelayed

InitEncoder == orig = <<>> /\ buf = <<>> /\ trail = <<>> /\ sum = Undefined /\ bcd = <<>> /\ hPayload = <<>> /\ hResult = Null /\ wire = NoFrame /\ flip = Null /\ handled = "none" /\ srvResult = NotHandled /\ partCall = NotRun /\ partResult = NotRun /\ ackArgs = NoArgs /\ written = Null /\ ackDecoded = Null /\ socketWrites = [c \in Sockets |-> <<>>] /\ handledCount = 0 /\ lastMessage = NoMessage /\ qlCalls = 0 /\ qlMessage = JsUndefined /\ qlResult = NotDecoded /\ qlFailedBefore = FALSE /\ dtInput = JsUndefined /\ dtResult = NotRead /\ csqParams = <<>> /\ csqReport = NotParsed /\ sessLog = <<>> /\ relayProgram = "server" /\ clientState = [c \in Clients |-> "idle"] /\ frontendSocket = Null /\ relayed = NotRelayed

InitHandler == orig = <<>> /\ buf = <<>> /\ trail = <<>> /\ sum = Undefined /\ bcd = <<>> /\ hPayload = <<>> /\ hResult = Null /\ wire = NoFrame /\ flip = Null /\ handled = "none" /\ srvResult = NotHandled /\ partCall = NotRun /\ partResult = NotRun /\ ackArgs = NoArgs /\ written = Null /\ ackDecoded = Null /\ socketWrites = [c \in Sockets |-> <<>>] /\ handledCount = 0 /\ lastMessage = NoMessage /\ qlCalls = 0 /\ qlMessage = JsUndefined /\ qlResult = NotDecoded /\ qlFailedBefore = FALSE /\ dtInput = JsUndefined /\ dtResult = NotRead /\ csqParams = <<>> /\ csqReport = NotParsed /\ sessLog = <<>> /\ relayProgram = "server" /\ clientState = [c \in Clients |-> "idle"] /\ frontendSocket = Null /\ relayed = NotRelayed

InitQueclink == orig = <<>> /\ buf = <<>> /\ trail = <<>> /\ sum = Undefined /\ bcd = <<>> /\ hPayload = <<>> /\ hResult = Null /\ wire = NoFrame /\ flip = Null /\ handled = "none" /\ srvResult = NotHandled /\ partCall = NotRun /\ partResult = NotRun /\ ackArgs = NoArgs /\ written = Null /\ ackDecoded = Null /\ socketWrites = [c \in Sockets |-> <<>>] /\ handledCount = 0 /\ lastMessage = NoMessage /\ qlCalls = 0 /\ qlMessage = JsUndefined /\ qlResult = NotDecoded /\ qlFailedBefore = FALSE /\ dtInput = JsUndefined /\ dtResult = NotRead /\ csqParams = <<>> /\ csqReport = NotParsed /\ sessLog = <<>> /\ relayProgram = "server" /\ clientState = [c \in Clients |-> "idle"] /\ frontendSocket = Null /\ relayed = NotRelayed

InitDateTime == orig = <<>> /\ buf = <<>> /\ trail = <<>> /\ sum = Undefined /\ bcd = <<>> /\ hPayload = <<>> /\ hResult = Null /\ wire = NoFrame /\ flip = Null /\ handled = "none" /\ srvResult = NotHandled /\ partCall = NotRun /\ partResult = NotRun /\ ackArgs = NoArgs /\ written = Null /\ ackDecoded = Null /\ socketWrites = [c \in Sockets |-> <<>>] /\ handledCount = 0 /\ lastMessage = NoMessage /\ qlCalls = 0 /\ qlMessage = JsUndefined /\ qlResult = NotDecoded /\ qlFailedBefore = FALSE /\ dtInput \in DateTimeInputs /\ dtResult = NotRead /\ csqParams = <<>> /\ csqReport = NotParsed /\ sessLog = <<>> /\ relayProgram = "server" /\ clientState = [c \in Clients |-> "idle"] /\ frontendSocket = Null /\ relayed = NotRelayed

InitCsq == orig = <<>> /\ buf = <<>> /\ trail = <<>> /\ sum = Undefined /\ bcd = <<>> /\ hPayload = <<>> /\ hResult = Null /\ wire = NoFrame /\ flip = Null /\ handled = "none" /\ srvResult = NotHandled /\ partCall = NotRun /\ partResult = NotRun /\ ackArgs = NoArgs /\ written = Null /\ ackDecoded = Null /\ socketWrites = [c \in Sockets |-> <<>>] /\ handledCount = 0 /\ lastMessage = NoMessage /\ qlCalls = 0 /\ qlMessage = JsUndefined /\ qlResult = NotDecoded /\ qlFailedBefore = FALSE /\ dtInput = JsUndefined /\ dtResult = NotRead /\ csqParams \in GTCSQLists /\ csqReport = NotParsed /\ sessLog = <<>> /\ relayProgram = "server" /\ clientState = [c \in Clients |-> "idle"] /\ frontendSocket = Null /\ relayed = NotRelayed

InitSession == orig = <<>> /\ buf = <<>> /\ trail = <<>> /\ sum = Undefined /\ bcd = <<>> /\ hPayload = <<>> /\ hResult = Null /\ wire = NoFrame /\ flip = Null /\ handled = "none" /\ srvResult = NotHandled /\ partCall = NotRun /\ partResult = NotRun /\ ackArgs = NoArgs /\ written = Null /\ ackDecoded = Null /\ socketWrites = [c \in Sockets |-> <<>>] /\ handledCount = 0 /\ lastMessage = NoMessage /\ qlCalls = 0 /\ qlMessage = JsUndefined /\ qlResult = NotDecoded /\ qlFailedBefore = FALSE /\ dtInput = JsUndefined /\ dtResult = NotRead /\ csqParams = <<>> /\ csqReport = NotParsed /\ sessLog = <<>> /\ relayProgram = "server" /\ clientState = [c \in Clients |-> "idle"] /\ frontendSocket = Null /\ relayed = NotRelayed

InitRelay == orig = <<>> /\ buf = <<>> /\ trail = <<>> /\ sum = Undefined /\ bcd = <<>> /\ hPayload = <<>> /\ hResult = Null /\ wire = NoFrame /\ flip = Null /\ handled = "none" /\ srvResult = NotHandled /\ partCall = NotRun /\ partResult = NotRun /\ ackArgs = NoArgs /\ written = Null /\ ackDecoded = Null /\ socketWrites = [c \in Sockets |-> <<>>] /\ handledCount = 0 /\ lastMessage = NoMessage /\ qlCalls = 0 /\ qlMessage = JsUndefined /\ qlResult = NotDecoded /\ qlFailedBefore = FALSE /\ dtInput = JsUndefined /\ dtResult = NotRead /\ csqParams = <<>> /\ csqReport = NotParsed /\ sessLog = <<>> /\ relayProgram \in RelayPrograms /\ clientState = [c \in Clients |-> "idle"] /\ frontendSocket = Null /\ relayed = NotRelayed

NextCodec == Unescape \/ PartUnescape \/ Escape \/ Checksum \/ PartChecksum \/ ReadBcd \/ PartReadBcd

NextHeader == ParseHeader

NextDevice == CorruptBit \/ ServerData \/ PartParse \/ PartData

NextEncoder == SendResponse \/ DecodeAck

NextHandler == HandleDeviceMessage

NextQueclink == Decode \/ DeviceData

NextDateTime == ParseDateTime

NextCsq == ParseGTCSQ

NextSession == DecodeText \/ DecodeFrame

NextRelay == (\E c \in Clients : FrontendConnection(c) \/ SocketEnd(c) \/ SocketClose(c) \/ SocketError(c)) \/ RelayDeviceData

SpecCodec == InitCodec /\ [][NextCodec]_vars

SpecHeader == InitHeader /\ [][NextHeader]_vars

SpecDevice == InitDevice /\ [][NextDevice]_vars

SpecEncoder == InitEncoder /\ [][NextEncoder]_vars

SpecHandler == InitHandler /\ [][NextHandler]_vars

SpecQueclink == InitQueclink /\ [][NextQueclink]_vars

SpecDateTime == InitDateTime /\ [][NextDateTime]_vars

SpecCsq == InitCsq /\ [][NextCsq]_vars

SpecSession == InitSession /\ [][NextSession]_vars

SpecRelay == InitRelay /\ [][NextRelay]_vars

\* ============================================================== the claims
\* The sequence that is left of x after its first n elements.
Drop(x, n) == SubSeq(x, n + 1, Len(x))

\* The single left-to-right pass, as equations between out = f(x) and f of what
\* follows the bytes consumed.
SinglePass(f(_), x, out) == IF x = <<>> THEN out = <<>> ELSE IF x[1] # 125 THEN out = <<x[1]>> \o f(Drop(x, 1)) ELSE IF Len(x) >= 2 /\ x[2] = 1 THEN out = <<125>> \o f(Drop(x, 2)) ELSE IF Len(x) >= 2 /\ x[2] = 2 THEN out = <<126>> \o f(Drop(x, 2)) ELSE out = <<125>> \o f(Drop(x, 1))

\* C4 for the unescape of ProtocolParser (src/server.js, src/protocol-parser.js).
C4_ClassUnescapeSinglePass == trail = <<"unescape">> => SinglePass(unescape, orig, buf)

\* C4: for every byte sequence, unescape is one left-to-right pass: 0x7D 0x01
\* gives 0x7D and 0x7D 0x02 gives 0x7E, both bytes consumed; 0x7D before any other
\* byte, or as the last byte, gives 0x7D alone; every other byte is copied.  It is
\* stated of both unescape functions of the repository.
C4_UnescapeSinglePass == (trail = <<"unescape">> => SinglePass(unescape, orig, buf)) /\ (trail = <<"part_unescape">> => SinglePass(part_unescape, orig, buf))

\* C5: for every byte sequence x, unescape(escape(x)) = x.
C5_UnescapeEscape == trail \in {<<"escapeBuffer", "unescape">>, <<"escapeBuffer", "part_unescape">>} => buf = orig

\* An escaped sequence holding both reserved bytes has been unescaped.
C5_Witness == trail = <<"escapeBuffer", "unescape">> /\ buf = orig /\ (\E j, k \in 1..Len(orig) : orig[j] = 125 /\ orig[k] = 126)

\* C6 as claimed: for every sequence x of the bytes 0x7D, 0x7E, 0x01 and 0x02,
\* escape(unescape(x)) = x.
C6_EscapeUnescape == (trail = <<"unescape", "escapeBuffer">> /\ (\A k \in 1..Len(orig) : orig[k] \in {125, 126, 1, 2})) => buf = orig

\* x is stuffed: 0x7E does not occur in it and every 0x7D is followed by 0x01 or
\* 0x02.
Stuffed(x) == \A k \in 1..Len(x) : x[k] # 126 /\ (x[k] = 125 => (k < Len(x) /\ x[k + 1] \in {1, 2}))

\* C6 as amended: for every stuffed byte sequence x, escape(unescape(x)) = x.
C6_EscapeUnescapeStuffed == (trail = <<"unescape", "escapeBuffer">> /\ Stuffed(orig)) => buf = orig

\* A stuffed sequence with both escape pairs has been unescaped and escaped again.
C6_Witness == trail = <<"unescape", "escapeBuffer">> /\ Stuffed(orig) /\ buf = orig /\ (\E j, k \in 1..(Len(orig) - 1) : orig[j] = 125 /\ orig[j + 1] = 1 /\ orig[k] = 125 /\ orig[k + 1] = 2)

\* Bit k of a byte, and the parity of the bytes of d that have bit k set.
Bit(b, k) == (b \div (2 ^ k)) % 2

Parity(d, k) == Cardinality({j \in 1..Len(d) : Bit(d[j], k) = 1}) % 2

\* C7: the checksum is the XOR-fold of the bytes (each bit of it is the parity of
\* that bit over the sequence), a byte in 0..255, 0 for the empty sequence; and
\* the last byte of d followed by its checksum is the checksum of what precedes it.
C7_ChecksumXorFold == trail \in {<<"calculateChecksum">>, <<"part_calculateChecksum">>} => (sum \in 0..255 /\ (\A k \in 0..7 : Bit(sum, k) = Parity(orig, k)) /\ (orig = <<>> => sum = 0) /\ (LET framed == Append(orig, sum) IN framed[Len(framed)] = calculateChecksum(SubSeq(framed, 1, Len(framed) - 1)) /\ framed[Len(framed)] = part_calculateChecksum(SubSeq(framed, 1, Len(framed) - 1))))

\* A checksum of several bytes in which bits cancel and bits remain.
C7_Witness == trail = <<"calculateChecksum">> /\ Len(orig) >= 3 /\ sum \notin {0, 255} /\ (\E j \in 1..Len(orig) : orig[j] = 255) /\ (\E j, k \in 1..Len(orig) : j # k /\ orig[j] = orig[k])

\* The digit text of the nibbles of x, high nibble first.
NibbleDigits(x) == [k \in 1..(2 * Len(x)) |-> IF k % 2 = 1 THEN x[(k + 1) \div 2] \div 16 ELSE x[k \div 2] % 16]

\* Every nibble of x is a decimal digit.
IsBcd(x) == \A k \in 1..Len(x) : x[k] \div 16 <= 9 /\ x[k] % 16 <= 9

\* The digits with exactly one leading 0 removed, unless the text is "0" alone.
OneZeroStripped(d) == IF Len(d) > 1 /\ d[1] = 0 THEN Drop(d, 1) ELSE d

\* C10 for the readBcd of src/server.js and src/protocol-parser.js.
C10_ClassReadBcdStripsOne == (trail = <<"readBcd">> /\ IsBcd(orig)) => bcd = OneZeroStripped(NibbleDigits(orig))

\* C10: BCD decode of n bytes gives the 2n digits of the nibbles in order with
\* exactly one leading 0 removed when the text starts with 0 and is longer than
\* one character, never more.  It is stated of both readBcd functions.
C10_ReadBcdStripsOne == (trail \in {<<"readBcd">>, <<"part_readBcd">>} /\ IsBcd(orig)) => bcd = OneZeroStripped(NibbleDigits(orig))

\* A frame as the contract of section 4.1 has it: markers first and last, an
\* unescaped payload of 13 bytes or more, and a last payload byte that is the
\* XOR of the bytes before it.
FrameValid(raw) == Len(raw) >= 1 /\ raw[1] = 126 /\ raw[Len(raw)] = 126 /\ (LET payload == unescape(SubSeq(raw, 2, Len(raw) - 1)) IN Len(payload) >= 13 /\ (\A k \in 0..7 : Bit(payload[Len(payload)], k) = Parity(SubSeq(payload, 1, Len(payload) - 1), k)))

\* C1: the binary decoder goes on to decode the header and the body exactly
\* when the frame has both markers, an unescaped payload of at least 13 bytes
\* and a matching checksum; otherwise it returns no report and decodes neither.
C1_AcceptsIffValid == handled = "server.js" => (srvResult.ended = "returned" /\ (srvResult.result.header # Null <=> FrameValid(wire.bytes)) /\ (srvResult.result.header # Null => (srvResult.result.body # Null /\ srvResult.result.error = "none")) /\ (srvResult.result.header = Null => (srvResult.result.ret = Null /\ srvResult.result.body = Null /\ srvResult.result.error \in {"framing", "short", "checksum"})))

\* The frame of scenario A has been decoded to a registration report.
C1_Witness == handled = "server.js" /\ flip = Null /\ wire = ScenarioAFrame /\ srvResult.result.ret # Null /\ srvResult.result.header # Null

\* C2: whatever the bytes, the binary decode call and the 'data' handler that
\* makes it end with a report or a decode failure; no exception leaves them.
C2_NoExceptionEscapes == (handled = "part_parse" => partCall.ended = "returned") /\ (handled = "part_000" => partResult.ended = "returned") /\ (handled = "server.js" => srvResult.ended \in {"returned", "caught"})

\* C3 as claimed: a valid frame with one bit of one body byte inverted is
\* reported as a checksum mismatch and gives no report.
C3_BitFlipDetected == (handled = "server.js" /\ flip # Null) => (srvResult.result.error = "checksum" /\ srvResult.result.ret = Null)

\* The byte of the inverted bit is no part of an escape pair and has not become
\* the escape byte.
FlipKeepsStuffing == flip # Null /\ flip[1].sent[flip[1].pos] # 125 /\ wire.bytes[flip[1].pos] # 125 /\ flip[1].sent[flip[1].pos - 1] # 125

\* C3 as amended: a valid frame with one bit of one body byte inverted, where
\* that byte is no part of an escape pair and does not become 0x7D, is reported
\* as a checksum mismatch and gives no report.
C3_PlainBitFlipDetected == (handled = "server.js" /\ FlipKeepsStuffing) => (srvResult.result.error = "checksum" /\ srvResult.result.ret = Null /\ srvResult.result.header = Null)

\* An inverted bit of the plate text of scenario A has been detected.
C3_Witness == handled = "server.js" /\ FlipKeepsStuffing /\ flip[1].sent = ScenarioAFrame.bytes /\ flip[1].pos = ScenarioAFrame.bodyTo /\ srvResult.result.error = "checksum"

\* The header that the decoder should find in an acknowledgement.
AckHeaderRoundTrips == ackDecoded[1].header # Null /\ ackDecoded[1].error = "none" /\ ackDecoded[1].header[1].messageId = ackArgs.messageId /\ ackDecoded[1].header[1].terminalMobileNo = OneZeroStripped(NibbleDigits(ackArgs.simBuffer)) /\ ackDecoded[1].header[1].messageSerialNo = ackArgs.serialNo /\ messageBodyLength(ackDecoded[1].header[1]) = Len(ackArgs.bodyBuffer)

\* C8 as claimed: every frame sendResponse builds passes the decoder's marker,
\* length and checksum checks, and the header decoded from it has the command
\* id, the device id, the sequence number and the body's byte count.
C8_AckRoundTrips == ackDecoded # Null => AckHeaderRoundTrips

\* C8 as amended: the same, for a body of at most 1023 bytes.
C8_AckRoundTripsUpTo1023 == (ackDecoded # Null /\ Len(ackArgs.bodyBuffer) <= BodyLengthMask) => AckHeaderRoundTrips

\* An acknowledgement with reserved bytes in its serial number and its body has
\* been decoded.
C8_Witness == ackDecoded # Null /\ AckHeaderRoundTrips /\ ackArgs.serialNo = 32126 /\ ackArgs.bodyBuffer = <<125, 126>> /\ ackArgs.simBuffer = LeadingZeroSim

\* The value of bits lo..hi of v.
BitField(v, lo, hi) == (v \div (2 ^ lo)) % (2 ^ (hi - lo + 1))

\* The big-endian word at bytes o and o+1 (counted from 0) of p.
BigEndianAt(p, o) == p[o + 1] * 256 + p[o + 2]

\* C9: the header is read big-endian in fixed order: command id (bytes 0-1),
\* body properties (2-3), device id (4-9), sequence number (10-11); the body
\* length is bits 0-9 of the properties, the encryption mode bits 10-12, the
\* sub-package flag bit 13; fragment count (12-13) and index (14-15) are there
\* exactly when bit 13 is set, and the body starts at 16 then and at 12 otherwise.
C9_HeaderLayout == hResult # Null => (LET r == hResult[1] h == hResult[1].header p == hPayload props == BigEndianAt(hPayload, 2) IN h.messageId = BigEndianAt(p, 0) /\ h.messageBodyProperties = props /\ h.terminalMobileNo = OneZeroStripped(NibbleDigits(SubSeq(p, 5, 10))) /\ h.messageSerialNo = BigEndianAt(p, 10) /\ messageBodyLength(h) = BitField(props, 0, 9) /\ r.expectedBodyLength = BitField(props, 0, 9) /\ dataEncryptionWay(h) = BitField(props, 10, 12) /\ (isSubpackaged(h) <=> BitField(props, 13, 13) = 1) /\ (h.packetItems # Null <=> BitField(props, 13, 13) = 1) /\ ((h.packetItems # Null /\ Len(p) >= 16) => (h.packetItems[1].totalPackets = BigEndianAt(p, 12) /\ h.packetItems[1].packetSequenceNo = BigEndianAt(p, 14))) /\ r.headerLength = (IF h.packetItems # Null THEN 16 ELSE 12) /\ (r.headerLength <= Len(p) => r.messageBodyAndChecksum = Drop(p, r.headerLength)))

\* A sub-packaged header with every field distinct has been decoded.
C9_Witness == hResult # Null /\ hResult[1].header.packetItems # Null /\ hResult[1].header.packetItems[1] = [totalPackets |-> 511, packetSequenceNo |-> 65281] /\ hResult[1].header.messageBodyProperties = 9215 /\ hResult[1].header.messageSerialNo = 258 /\ dataEncryptionWay(hResult[1].header) = 0 /\ messageBodyLength(hResult[1].header) = 1023

\* The payload between the markers of a frame, and the bytes of it between the
\* end of the header and the checksum byte.
FramePayload(raw) == unescape(SubSeq(raw, 2, Len(raw) - 1))

FrameBody(raw) == SubSeq(FramePayload(raw), (IF BitField(BigEndianAt(FramePayload(raw), 2), 13, 13) = 1 THEN 16 ELSE 12) + 1, Len(FramePayload(raw)) - 1)

\* C11: for a valid frame with command id 0x0100 the registration decoder is
\* handed every byte between the header and the checksum byte, and decodes
\* province (2), city (2), manufacturer (5), model (8), terminal id (7), plate
\* colour (1) and the plate text from all the bytes that remain (the bodies
\* here hold bytes below 0x80, which are their own characters).
C11_RegistrationBodyWhole == (handled = "server.js" /\ flip = Null /\ wire.kind = "valid" /\ BigEndianAt(FramePayload(wire.bytes), 0) = 256) => (srvResult.result.ret # Null /\ srvResult.result.body = Some(FrameBody(wire.bytes)) /\ (Len(FrameBody(wire.bytes)) >= 25 => (LET r == srvResult.result.ret[1] b == FrameBody(wire.bytes) IN r.provincialId = BigEndianAt(b, 0) /\ r.cityId = BigEndianAt(b, 2) /\ r.manufacturerId = SubSeq(b, 5, 9) /\ r.terminalModels = SubSeq(b, 10, 17) /\ r.terminalId = SubSeq(b, 18, 24) /\ r.licensePlateColor = b[25] /\ r.licensePlate = Drop(b, 25))))

\* C12: a frame that passes the marker, length and checksum checks and whose
\* command id has no body decoder gives a header-only report that carries the
\* decoded header; the outcome differs from that of a framing or checksum
\* failure.
C12_UnknownCommandHeaderOnly == (handled = "server.js" /\ FrameValid(wire.bytes) /\ BigEndianAt(FramePayload(wire.bytes), 0) # 256) => (srvResult.result.ret # Null /\ srvResult.result.ret[1].header = srvResult.result.header[1])

\* The frame of the same payload with another declared body length.
Redeclared(raw) == LET p == FramePayload(raw) q == [SubSeq(p, 1, Len(p) - 1) EXCEPT ![4] = (@ + 1) % 256] IN <<126>> \o escapeBuffer(Append(q, calculateChecksum(q))) \o <<126>>

\* The fields of a registration report that come from the body.
RegistrationFields(r) == <<r.provincialId, r.cityId, r.manufacturerId, r.terminalModels, r.terminalId, r.licensePlateColor, r.licensePlate>>

\* C13: a declared body length that differs from the number of body bytes never
\* fails the decode: the report is produced from the bytes that are there, the
\* same as for the frame that differs only in the declared length; and no
\* warning is raised when the declared length is the number of bytes between
\* the header and the checksum byte.
C13_LengthMismatchTolerated == (handled = "server.js" /\ FrameValid(wire.bytes)) => (srvResult.result.error = "none" /\ srvResult.result.header # Null /\ (BigEndianAt(FramePayload(wire.bytes), 0) = 256 => (srvResult.result.ret # Null /\ parse(Redeclared(wire.bytes)).ret # Null /\ RegistrationFields(srvResult.result.ret[1]) = RegistrationFields(parse(Redeclared(wire.bytes)).ret[1]))) /\ (BitField(BigEndianAt(FramePayload(wire.bytes), 2), 0, 9) = Len(FrameBody(wire.bytes)) => ~srvResult.result.warn))

\* The part of C13 that holds: the decode never fails on the declared length and
\* does not depend on it.
C13_LengthNeverFatal == (handled = "server.js" /\ FrameValid(wire.bytes)) => (srvResult.result.error = "none" /\ srvResult.result.header # Null /\ (BigEndianAt(FramePayload(wire.bytes), 0) = 256 => (srvResult.result.ret # Null /\ parse(Redeclared(wire.bytes)).ret # Null /\ RegistrationFields(srvResult.result.ret[1]) = RegistrationFields(parse(Redeclared(wire.bytes)).ret[1]))))

\* The message has both markers; the command id its payload starts with (none
\* when the payload has no two bytes).
Framed(data) == Len(data) >= 1 /\ data[1] = 126 /\ data[Len(data)] = 126

CommandOf(data) == IF Len(FramePayload(data)) >= 2 THEN BigEndianAt(FramePayload(data), 0) ELSE 0 - 1

Acknowledged == {256, 258, 2, 512}

\* C14: every message with both markers and command id 0x0100, 0x0102, 0x0002
\* or 0x0200 has exactly one acknowledgement written to the connection that
\* delivered it; a message with another command id or a bad marker has none; no
\* other connection is written to.
C14_OneAckPerMessage == handledCount > 0 => ((\A c \in Sockets \ {lastMessage.socket} : socketWrites[c] = lastMessage.before[c]) /\ SubSeq(socketWrites[lastMessage.socket], 1, Len(lastMessage.before[lastMessage.socket])) = lastMessage.before[lastMessage.socket] /\ Len(socketWrites[lastMessage.socket]) = Len(lastMessage.before[lastMessage.socket]) + (IF Framed(lastMessage.data) /\ CommandOf(lastMessage.data) \in Acknowledged THEN 1 ELSE 0))

\* The part of C14 that holds: the same, for messages whose payload has the 12
\* header bytes.
C14_OneAckPerWholeHeader == (handledCount > 0 /\ (Framed(lastMessage.data) => Len(FramePayload(lastMessage.data)) >= 12)) => ((\A c \in Sockets \ {lastMessage.socket} : socketWrites[c] = lastMessage.before[c]) /\ SubSeq(socketWrites[lastMessage.socket], 1, Len(lastMessage.before[lastMessage.socket])) = lastMessage.before[lastMessage.socket] /\ Len(socketWrites[lastMessage.socket]) = Len(lastMessage.before[lastMessage.socket]) + (IF Framed(lastMessage.data) /\ CommandOf(lastMessage.data) \in Acknowledged THEN 1 ELSE 0))

\* The last packet written to the connection of the last message, and the
\* payload between its markers.
LastAck == socketWrites[lastMessage.socket][Len(socketWrites[lastMessage.socket])]

LastAckPayload == FramePayload(LastAck)

\* The sequence number and the device id bytes of the last message.
RequestSerial == BigEndianAt(FramePayload(lastMessage.data), 10)

RequestSim == SubSeq(FramePayload(lastMessage.data), 5, 10)

\* The command id and the body of the acknowledgement of a command.
AckIdOf(cmd) == IF cmd = 256 THEN 33024 ELSE 32769

AckBodyOf(cmd, serial) == IF cmd = 256 THEN <<serial \div 256, serial % 256, 0, 49, 50, 51, 52, 53, 54>> ELSE IF cmd = 512 THEN <<0, 2, 0>> ELSE <<serial \div 256, serial % 256, cmd \div 256, cmd % 256, 0>>

\* An acknowledgement has been written for the last message.
Acked == handledCount > 0 /\ Len(socketWrites[lastMessage.socket]) > Len(lastMessage.before[lastMessage.socket])

\* C15: the registration ack (0x8100) is the sequence number, a result byte and
\* the authentication code; the generic and heartbeat acks (0x8001) are the
\* sequence number, the acknowledged command id and a result byte; the location
\* ack is a fixed body of 3 bytes.  The header of every ack is command id, body
\* length, the 6 device id bytes of the request and the sequence number; the
\* checksum covers header and body; the whole is escaped and put between markers.
C15_AckShapes == Acked => (LET cmd == CommandOf(lastMessage.data) body == AckBodyOf(CommandOf(lastMessage.data), RequestSerial) p == LastAckPayload IN Framed(LastAck) /\ Stuffed(SubSeq(LastAck, 2, Len(LastAck) - 1)) /\ Len(p) = 12 + Len(body) + 1 /\ BigEndianAt(p, 0) = AckIdOf(cmd) /\ BigEndianAt(p, 2) = Len(body) /\ SubSeq(p, 5, 10) = RequestSim /\ BigEndianAt(p, 10) = RequestSerial /\ SubSeq(p, 13, Len(p) - 1) = body /\ (\A k \in 0..7 : Bit(p[Len(p)], k) = Parity(SubSeq(p, 1, Len(p) - 1), k)))

\* An authentication with reserved bytes in its sequence number has been
\* acknowledged on the second connection, after an earlier acknowledgement.
C15_Witness == Acked /\ lastMessage.socket = 2 /\ Len(socketWrites[2]) = 2 /\ CommandOf(lastMessage.data) = 258 /\ RequestSerial = 32126 /\ LastAckPayload[13] = 125 /\ LastAckPayload[14] = 126 /\ BigEndianAt(LastAckPayload, 14) = 258

\* ---- the text decoder
\* The text between the first and the last character that is no white space.
Core(text) == IF \A i \in 1..Len(text) : text[i] \in WhiteSpace THEN <<>> ELSE SubSeq(text, CHOOSE i \in 1..Len(text) : text[i] \notin WhiteSpace /\ \A j \in 1..(i - 1) : text[j] \in WhiteSpace, CHOOSE i \in 1..Len(text) : text[i] \notin WhiteSpace /\ \A j \in (i + 1)..Len(text) : text[j] \in WhiteSpace)

\* The core without one tail character, when it ends in one.
Stripped(text) == LET core == Core(text) IN IF core # <<>> /\ core[Len(core)] = "$" THEN SubSeq(core, 1, Len(core) - 1) ELSE core

ClassPrefixes == {<<"+", "R", "E", "S", "P", ":">>, <<"+", "A", "C", "K", ":">>, <<"+", "B", "U", "F", "F", ":">>}

BeginsWithClass(text) == \E prefix \in ClassPrefixes : Len(text) >= Len(prefix) /\ SubSeq(text, 1, Len(prefix)) = prefix

OnlyHex(text) == text # <<>> /\ \A i \in 1..Len(text) : text[i] \in HexDigits

\* The path the decoder has to choose for a value.
PathFor(value) == IF value[1] # "string" \/ value[2] = <<>> THEN "none" ELSE LET stripped == Stripped(value[2]) IN IF BeginsWithClass(stripped) THEN "parseASCII" ELSE IF OnlyHex(stripped) /\ Len(stripped) > 10 THEN "parseHEX" ELSE "none"

\* A text that ends in one tail character, maybe followed by white space, the
\* text before the tail character ending in no white space and no other tail
\* character; and the same text without the tail character.
TailAt(text) == CHOOSE i \in 1..Len(text) : text[i] = "$" /\ \A j \in (i + 1)..Len(text) : text[j] \in WhiteSpace

HasTail(text) == (\E i \in 1..Len(text) : text[i] = "$" /\ \A j \in (i + 1)..Len(text) : text[j] \in WhiteSpace) /\ (LET tail == TailAt(text) IN tail > 1 /\ text[tail - 1] \notin WhiteSpace \cup {"$"})

WithoutTail(text) == LET tail == TailAt(text) IN SubSeq(text, 1, tail - 1) \o SubSeq(text, tail + 1, Len(text))

\* Two results have the same class tag, mnemonic and decoded fields.
SameDecoded(a, b) == a.path = b.path /\ (a.report = JsNull <=> b.report = JsNull) /\ (a.report # JsNull => a.report[2].messageType = b.report[2].messageType /\ a.report[2].command = b.report[2].command /\ a.report[2].parsedData = b.report[2].parsedData)

HeaderOf(text) == LET stripped == Stripped(text) IN IF \E i \in 1..Len(stripped) : stripped[i] = "," THEN SubSeq(stripped, 1, (CHOOSE i \in 1..Len(stripped) : stripped[i] = "," /\ \A j \in 1..(i - 1) : stripped[j] # ",") - 1) ELSE stripped

\* The class prefix a header begins with, and what follows it.
ClassOf(header) == CHOOSE prefix \in ClassPrefixes : Len(header) >= Len(prefix) /\ SubSeq(header, 1, Len(prefix)) = prefix

MnemonicOf(header) == SubSeq(header, Len(ClassOf(header)) + 1, Len(header))

WellFormed(header) == BeginsWithClass(header) /\ (LET mnemonic == MnemonicOf(header) IN mnemonic # <<>> /\ \A i \in 1..Len(mnemonic) : mnemonic[i] \in UpperAlnum)

Registered(mnemonic) == \E entry \in asciiParsers : entry[1] = mnemonic

\* The last call decoded an ASCII message.
AsciiDecoded == qlCalls > 0 /\ isString(qlMessage) /\ BeginsWithClass(HeaderOf(qlMessage[2]))

\* C17: an ASCII message of any class, +RESP, +ACK or +BUFF, whose header is
\* malformed or whose mnemonic has no registered layout yields no report, and
\* the call after a failed one returns what it returns with no call before it.
C17_UnknownIsFailure == (AsciiDecoded => LET header == HeaderOf(qlMessage[2]) IN ~WellFormed(header) \/ ~Registered(MnemonicOf(header)) => qlResult.report = JsNull) /\ (qlFailedBefore => qlResult = QueclinkParser_parse(qlMessage))

\* The same for the classes +RESP and +ACK and for every malformed header: this
\* holds.
C17_UnbufferedUnknownIsFailure == (AsciiDecoded => LET header == HeaderOf(qlMessage[2]) IN ~WellFormed(header) \/ (ClassOf(header) # <<"+", "B", "U", "F", "F", ":">> /\ ~Registered(MnemonicOf(header))) => qlResult.report = JsNull) /\ (qlFailedBefore => qlResult = QueclinkParser_parse(qlMessage))

\* The last call decoded a +BUFF message whose mnemonic has one of the layouts
\* the model unfolds.
BufferedDecoded == AsciiDecoded /\ (LET header == HeaderOf(qlMessage[2]) IN WellFormed(header) /\ ClassOf(header) = <<"+", "B", "U", "F", "F", ":">> /\ MnemonicOf(header) \in {GTOER, GTOPN, GTOPF, GTOBD, GTOSM})

\* The text of the last message under the class +RESP, its tail removed.
AsResp(text) == <<"+", "R", "E", "S", "P", ":">> \o SubSeq(Stripped(text), 7, Len(Stripped(text)))

\* The same with the first field of the list removed.
AsRespLater(text) == LET stripped == Stripped(text) header == HeaderOf(text) rest == SubSeq(stripped, Len(header) + 2, Len(stripped)) IN <<"+", "R", "E", "S", "P", ":">> \o MnemonicOf(header) \o <<",">> \o SubSeq(rest, indexOf(rest, ",") + 2, Len(rest))

\* The decoded fields of a report, null when there is no report.
FieldsOf(report) == IF report = JsNull THEN JsNull ELSE report[2].parsedData

\* Every named field of the plain report has the same value in the buffered one.
SameNamedFields(buffered, plain) == IF plain = JsNull THEN buffered = JsNull ELSE buffered # JsNull /\ \A name \in DOMAIN plain[2] : name \in DOMAIN buffered[2] /\ buffered[2][name] = plain[2][name]

\* C18: for a mnemonic M with a registered layout and a field list F, decoding
\* '+BUFF:M,F' yields the same named field values, read from the same field
\* positions, as decoding '+RESP:M,F'.
C18_BufferedSameFields == BufferedDecoded => SameNamedFields(FieldsOf(qlResult.report), FieldsOf(QueclinkParser_parse(JsString(AsResp(qlMessage[2]))).report))

\* What the code does: '+BUFF:M,X,F' yields the named field values of
\* '+RESP:M,F', every field being read one position later.
C18_BufferedReadsOneLater == BufferedDecoded => SameNamedFields(FieldsOf(qlResult.report), FieldsOf(QueclinkParser_parse(JsString(AsRespLater(qlMessage[2]))).report))

\* The last call decoded a well-formed message of a mnemonic whose layout the
\* model unfolds.
LayoutDecoded == AsciiDecoded /\ (LET header == HeaderOf(qlMessage[2]) IN WellFormed(header) /\ MnemonicOf(header) \in {GTOER, GTOPN, GTOPF, GTOBD, GTOSM})

\* The number of fields the layout of the last message is handed: the fields
\* after the header, less the one parseBufferReport drops for +BUFF.
FieldsHanded(text) == LET stripped == Stripped(text) IN Cardinality({i \in 1..Len(stripped) : stripped[i] = ","}) - (IF ClassOf(HeaderOf(text)) = <<"+", "B", "U", "F", "F", ":">> THEN 1 ELSE 0)

\* The number of fields below which the layout of a mnemonic throws.
FieldsNeeded(mnemonic) == IF mnemonic = GTOER THEN 6 ELSE IF mnemonic \in {GTOBD, GTOSM} THEN 32 ELSE 0

\* C19: in every ASCII report a field that is empty, missing or not parseable
\* decodes to null for that field only and the report is still produced with
\* its other fields, also when the OBD-protocol field of a GTOER, GTOBD or GTOSM
\* report is missing or the message has fewer fields than the layout reads.
C19_ReportStillProduced == LayoutDecoded => FieldsOf(qlResult.report) # JsNull

\* What the code does: the report is produced when the layout is handed at
\* least the fields it needs, 6 for GTOER and 32 for GTOBD and GTOSM, and is
\* lost whole below that.
C19_ProducedWhenLongEnough == LayoutDecoded => (FieldsOf(qlResult.report) # JsNull <=> FieldsHanded(qlMessage[2]) >= FieldsNeeded(MnemonicOf(HeaderOf(qlMessage[2]))))

\* The number two decimal digits of a text stand for, and the number four do.
TwoDigits(text, at) == digitValue(text[at]) * 10 + digitValue(text[at + 1])

FourDigits(text, at) == TwoDigits(text, at) * 100 + TwoDigits(text, at + 2)

AllDigits(text) == \A i \in 1..Len(text) : text[i] \in DecimalDigits

\* The days of a month of the calendar.
DaysIn(year, month) == IF month \in {4, 6, 9, 11} THEN 30 ELSE IF month # 2 THEN 31 ELSE IF year % 4 = 0 /\ (year % 100 # 0 \/ year % 400 = 0) THEN 29 ELSE 28

RealDate(year, month, day) == month \in 1..12 /\ day \in 1..DaysIn(year, month)

\* The reader was called and returned a date.
DateReturned == dtResult # NotRead /\ dtResult # JsNull

\* The date returned is the real calendar date the digits of the text name.
DateOfDigits(text) == Len(text) = 14 /\ RealDate(FourDigits(text, 1), TwoDigits(text, 5), TwoDigits(text, 7)) /\ dtResult[2] = FourDigits(text, 1) /\ dtResult[3] = TwoDigits(text, 5) - 1 /\ dtResult[4] = TwoDigits(text, 7)

\* C20: the date-time reader returns a value only for a 14-character string
\* YYYYMMDDHHMMSS whose year, month and day form a real calendar date, and the
\* date returned has the year, month and day of the input digits; every other
\* string decodes to null.
C20_OnlyRealDates == DateReturned => isString(dtInput) /\ AllDigits(dtInput[2]) /\ DateOfDigits(dtInput[2])

\* What the code does: the claim holds for the strings made of digits only.
C20_RealDatesOfDigits == DateReturned /\ AllDigits(dtInput[2]) => DateOfDigits(dtInput[2])

\* ---- the signal quality mappers
\* The character of a decimal digit.
DigitOf(k) == CHOOSE c \in DecimalDigits : digitValue(c) = k

\* A number of two or three digits written out.
Written(n) == IF n >= 100 THEN <<DigitOf(n \div 100), DigitOf((n \div 10) % 10), DigitOf(n % 10)>> ELSE <<DigitOf(n \div 10), DigitOf(n % 10)>>

\* What the RSSI mapper is to return for a code: the number read from the
\* field, or null for a field that holds none.
RssiExpected(code) == IF code = JsNull THEN <<"I", "n", "v", "a", "l", "i", "d", " ", "R", "S", "S", "I">> ELSE IF code[2] = 0 THEN <<"<", "-", "1", "1", "3", " ", "d", "B", "m">> ELSE IF code[2] \in 1..30 THEN <<"-">> \o Written(109 - 2 * (code[2] - 2)) \o <<" ", "d", "B", "m">> ELSE IF code[2] = 31 THEN <<">", "-", "5", "1", " ", "d", "B", "m">> ELSE IF code[2] = 99 THEN <<"U", "n", "k", "n", "o", "w", "n">> ELSE <<"I", "n", "v", "a", "l", "i", "d", " ", "R", "S", "S", "I">>

CsqParsed == csqReport # NotParsed

\* C21: the RSSI mapper returns "<-113 dBm" for code 0, "-111 dBm" for 1,
\* -109 + 2 * (c - 2) dBm for every code c in 2..30, ">-51 dBm" for 31,
\* "Unknown" for 99, and the invalid marker for every other input, an absent
\* field included.
C21_RssiBands == CsqParsed => csqReport[2].csqRssiDbm = JsString(RssiExpected(csqReport[2].csqRssi))

C21_Witness == CsqParsed /\ csqReport[2].csqRssi = JsNumber(17) /\ csqReport[2].csqRssiDbm = JsString(<<"-", "7", "9", " ", "d", "B", "m">>)

\* The codes of the BER bands.
BerBand == {JsNumber(n) : n \in 0..7}

\* C30: the BER mapper returns "BER n/7" only for an integer code n in 0..7 and
\* the unknown marker only for code 99; for every other input, an absent BER
\* field included, it returns the invalid marker and never a band.
C30_BerBands == CsqParsed => IF csqReport[2].csqBer \in BerBand THEN csqReport[2].csqBerDescription = JsString(<<"B", "E", "R", " ">> \o <<DigitOf(csqReport[2].csqBer[2])>> \o <<"/", "7">>) ELSE IF csqReport[2].csqBer = JsNumber(99) THEN csqReport[2].csqBerDescription = JsString(<<"U", "n", "k", "n", "o", "w", "n", " ", "s", "i", "g", "n", "a", "l", " ", "s", "t", "r", "e", "n", "g", "t", "h">>) ELSE csqReport[2].csqBerDescription = JsString(<<"I", "n", "v", "a", "l", "i", "d", " ", "B", "E", "R">>)

\* What the code does: the claim holds for every field that holds a number.
C30_BerBandsOfNumbers == CsqParsed /\ csqReport[2].csqBer # JsNull => C30_BerBands

\* ---- the layouts of the text decoder
\* The fields after the header of a message.
FieldsAfterHeader(text) == Tail(split(Stripped(text)))

\* The date and time that 14 digits name.
DateOfText(text) == JsDate(FourDigits(text, 1), TwoDigits(text, 5) - 1, TwoDigits(text, 7), TwoDigits(text, 9), TwoDigits(text, 11), TwoDigits(text, 13))

\* The number that four hexadecimal digits stand for.
HexValue4(text) == ((digitValue(text[1]) * 16 + digitValue(text[2])) * 16 + digitValue(text[3])) * 16 + digitValue(text[4])

\* The last call decoded a message of the class and the mnemonic.
DecodedAs(class, mnemonic) == AsciiDecoded /\ HeaderOf(qlMessage[2]) = <<"+">> \o class \o <<":">> \o mnemonic

SmallValue(text) == IF Len(text) = 1 THEN digitValue(text[1]) ELSE TwoDigits(text, 1)

IsCount(text) == text # <<>> /\ AllDigits(text)

\* The (id, power) pairs a satellite message carries between its count field,
\* the 5th, and its last two fields, the send time and the count number.
PairsPresent(fields) == (Len(fields) - 7) \div 2

\* The satellite list of the last report.
SatellitesOf(report) == report[2].parsedData[2].satellites[2]

\* The list is the first pairs of the message, in order.
PairsInOrder(fields, satellites) == \A i \in 1..Len(satellites) : satellites[i][2].svId = JsNumber(SmallValue(fields[4 + 2 * i])) /\ satellites[i][2].svPower = JsNumber(SmallValue(fields[5 + 2 * i]))

\* The parts of C23 for a list of fields and the report decoded from it.
SatelliteListRight(fields, report) == /\ (IsCount(fields[5]) /\ SmallValue(fields[5]) = PairsPresent(fields) => Len(SatellitesOf(report)) = PairsPresent(fields) /\ PairsInOrder(fields, SatellitesOf(report)) /\ report[2].parsedData[2].sendTime = DateOfText(fields[Len(fields) - 1]) /\ report[2].parsedData[2].countNumber = JsNumber(HexValue4(fields[Len(fields)])))
                                      /\ (~IsCount(fields[5]) => SatellitesOf(report) = <<>>)
                                      /\ (IsCount(fields[5]) => Len(SatellitesOf(report)) <= SmallValue(fields[5]))
                                      /\ Len(SatellitesOf(report)) <= PairsPresent(fields)

\* C23: in a GTGSV report a count n with n pairs present gives exactly the n
\* pairs in order, with send time and count number read from the two fields
\* after them; an empty or non-numeric count gives an empty list and still a
\* report; the list never holds more entries than the count and never holds
\* the send-time and count-number fields as a satellite.
C23_SatelliteList == DecodedAs(RESP, GTGSV) => qlResult.report # JsNull /\ SatelliteListRight(FieldsAfterHeader(qlMessage[2]), qlResult.report)

\* What the code does: the claim holds when the count is not above the number
\* of pairs present.
C23_SatelliteListWithinPairs == DecodedAs(RESP, GTGSV) /\ (LET fields == FieldsAfterHeader(qlMessage[2]) IN IsCount(fields[5]) => SmallValue(fields[5]) <= PairsPresent(fields)) => qlResult.report # JsNull /\ SatelliteListRight(FieldsAfterHeader(qlMessage[2]), qlResult.report)

\* C24: a '+RESP:GTALM' message decodes to a report whose configuration
\* sections are keyed by tag, a section of a recognized tag by the layout of
\* the tag and a section of an unrecognized tag as its raw content, and in
\* neither case does the whole report fail.
C24_AlmReportProduced == DecodedAs(RESP, GTALM) => qlResult.report # JsNull

\* What the code does: no GTALM message yields a report.
C24_AlmNeverDecodes == DecodedAs(RESP, GTALM) => qlResult.path = "parseASCII" /\ qlResult.report = JsNull

\* ---- the hex decoder
\* The constants of the seven families +ACK, +RSP, +EVT, +INF, +HBD, +CRD, +OBD.
SevenFamilies == {<<"2", "B", "4", "1", "4", "3", "4", "B">>, <<"2", "B", "5", "2", "5", "3", "5", "0">>, <<"2", "B", "4", "5", "5", "6", "5", "4">>, <<"2", "B", "4", "9", "4", "E", "4", "6">>, <<"2", "B", "4", "8", "4", "2", "4", "4">>, <<"2", "B", "4", "3", "5", "2", "4", "4">>, <<"2", "B", "4", "F", "4", "2", "4", "4">>}

\* The last call took the hex path.
HexDecoded == qlCalls > 0 /\ qlResult.path = "parseHEX"

\* The first 8 characters of the last message, in capitals.
FamilyOf(text) == toUpperCase(SubSeq(Stripped(text), 1, 8))

\* C25: an all-hex message longer than the minimum whose first 8 characters,
\* compared without regard to case, are the constant of one of the seven
\* families yields a report tagged with that family; one whose first 8
\* characters match no family yields a decode failure.
C25_HexFamilies == HexDecoded => IF FamilyOf(qlMessage[2]) \in SevenFamilies THEN qlResult.report # JsNull /\ qlResult.report[2].messageType = JsString(HEX) /\ qlResult.report[2].command = JsString(FamilyOf(qlMessage[2])) ELSE qlResult.report = JsNull

\* What the code does: the claim holds for the families other than +ACK and
\* for the headers other than the one of +ATI; a message of +ACK yields no
\* report and a message of +ATI yields one.
C25_HexFamiliesButTwo == HexDecoded => IF FamilyOf(qlMessage[2]) = <<"2", "B", "4", "1", "4", "3", "4", "B">> THEN qlResult.report = JsNull ELSE IF FamilyOf(qlMessage[2]) = <<"2", "B", "4", "1", "5", "4", "4", "9">> THEN qlResult.report # JsNull ELSE C25_HexFamilies

\* ---- the common event reports
\* The layout of GTMPN, GTMPF and GTBTC: every named field at the position the
\* mnemonic gives it.
StandardEventReport(params) == Returned(JsObject([protocolVersion |-> _parseProtocolVersion(param(params, 0)), uniqueId |-> _toString(param(params, 1)), vin |-> _toString(param(params, 2)), deviceName |-> _toString(param(params, 3)), gnssAccuracy |-> _toNumber(param(params, 4), 10, FALSE), speed |-> _toNumber(param(params, 5), 10, TRUE), azimuth |-> _toNumber(param(params, 6), 10, FALSE), altitude |-> _toNumber(param(params, 7), 10, TRUE), longitude |-> _toNumber(param(params, 8), 10, TRUE), latitude |-> _toNumber(param(params, 9), 10, TRUE), gnssUtcTime |-> _parseDateTime(param(params, 10)), mcc |-> _toString(param(params, 11)), mnc |-> _toString(param(params, 12)), lac |-> _toString(param(params, 13)), cellId |-> _toString(param(params, 14)), sendTime |-> _parseDateTime(param(params, 16)), countNumber |-> _toNumberFromHex(param(params, 17))]))

\* The last call decoded a '+RESP:' message of GTMPN, GTMPF or GTBTC.
EventDecoded == \E mnemonic \in {GTMPN, GTMPF, GTBTC} : DecodedAs(RESP, mnemonic)

\* C29: for GTMPN, GTMPF and GTBTC the layout is selected by the mnemonic
\* alone: each named field is read from the same fixed position whatever the
\* contents or the number of the fields, also when the 5th field, the GNSS
\* accuracy, is empty.
C29_FixedPositions == EventDecoded => FieldsOf(qlResult.report) = StandardEventReport(FieldsAfterHeader(qlMessage[2])).ret

\* What the code does: the positions are the fixed ones unless the message has
\* 18 fields or more and its 5th field is empty.
C29_FixedUnlessFifthEmpty == EventDecoded /\ ~(Len(FieldsAfterHeader(qlMessage[2])) >= 18 /\ FieldsAfterHeader(qlMessage[2])[5] = <<>>) => FieldsOf(qlResult.report) = StandardEventReport(FieldsAfterHeader(qlMessage[2])).ret

\* ---- the decoders across calls
\* What a decoder returns for an input when no call was made before it.
DecodedAlone(input) == IF input[1] = "text" THEN QueclinkParser_parse(input[2]) ELSE parse(input[2])

C27_RelayReference == ((connectedClients(clientState) # {}) => frontendSocket # Null) /\ (relayed.outcome = "no client" => relayed.connected = {}) /\ (frontendSocket # Null => clientState[frontendSocket[1]] = "connected")

\* What holds of the reference: it is null or a connected socket, and a message
\* that was forwarded went to a socket connected at that moment.
C27_ReferenceIsConnected == (frontendSocket # Null => clientState[frontendSocket[1]] = "connected") /\ (relayed.outcome = "forwarded" => relayed.to[1] \in relayed.connected)

\* A device message is reported as not forwardable while a client is connected.
C27_ReportedWhileConnected == relayed.outcome = "no client" /\ relayed.connected # {}

\* The bytes of a frame that its checksum covers: the unescaped payload without
\* its last byte.
Checksummed(raw) == SubSeq(FramePayload(raw), 1, Len(FramePayload(raw)) - 1)

\* C28: for every frame that passed the length and checksum checks, also with
\* the sub-package flag (bit 13) set, the bytes at offsets 12 to 15 that the
\* header decode reads as fragment count and fragment index exist in the
\* checksummed payload, and the offset where the body starts is not beyond the
\* length of that payload.
C28_HeaderInsidePayload == (handled = "server.js" /\ FrameValid(wire.bytes)) => (LET payload == Checksummed(wire.bytes) h == parseHeader(payload) IN (h.header.packetItems # Null => \A offset \in HeaderLen..(HeaderLen + 3) : At(payload, offset) # Undefined) /\ h.headerLength <= Len(payload))

\* What holds: a header without the flag ends inside the payload, and a header
\* with the flag ends at offset 16, inside the payload exactly when the payload
\* has 16 bytes.
C28_HeaderInsideUnlessFlagged == (handled = "server.js" /\ FrameValid(wire.bytes)) => (LET payload == Checksummed(wire.bytes) h == parseHeader(payload) IN srvResult.result.header = Some(h.header) /\ (IF BitField(BigEndianAt(payload, 2), 13, 13) = 0 THEN h.header.packetItems = Null /\ h.headerLength = HeaderLen /\ h.headerLength <= Len(payload) ELSE h.header.packetItems # Null /\ h.headerLength = HeaderLen + 4 /\ (h.headerLength <= Len(payload) <=> Len(payload) >= 16)))

\* A frame with the flag set and a payload of fewer than 16 bytes was decoded,
\* and its fragment count and index are 0.
C28_ShortFlaggedDecoded == handled = "server.js" /\ FrameValid(wire.bytes) /\ Len(Checksummed(wire.bytes)) < 16 /\ srvResult.result.error = "none" /\ srvResult.result.header # Null /\ srvResult.result.header[1].packetItems # Null /\ srvResult.result.header[1].packetItems[1] = MessagePacketPackageItems(0, 0)

====
